---- MODULE Spec2Model ----
(***************************************************************************)
(* A model of the netparser packet dissector: the nom-based decoders of    *)
(* lib/netparse (Ethernet, ARP, IPv4, IPv6, TCP, UDP, ICMP, RadioTap,      *)
(* IEEE 802.11 MAC frames and management bodies).                          *)
(*                                                                         *)
(* A byte slice is a sequence over 0..255.  A decoder is an operator from  *)
(* a slice to one of                                                       *)
(*   [tag |-> "Ok",  rest |-> slice, val |-> value]                         *)
(*   [tag |-> "Err", errors |-> <<[input |-> slice, kind |-> k], ...>>]     *)
(*   [tag |-> "Panic", msg |-> string]                                      *)
(* The error chain is the Vec of core/parse.rs: index 1 is pushed first.   *)
(* A decoder body is written as its source lines are: Bind(p(i), LAMBDA x  *)
(* : ...) is `let (i, x) = p(i)?;` followed by the rest of the body.       *)
(* A u32 is held as its two 16-bit halves <<hi, lo>> and a u64 as four     *)
(* 16-bit limbs, most significant first, because TLC's integers are       *)
(* 32-bit signed.                                                          *)
(***************************************************************************)
EXTENDS Integers, Sequences, FiniteSets, TLC

VARIABLES buf, overflow_checks, decoder, result, link_type, ux, table, ui

vars == <<buf, overflow_checks, decoder, result, link_type, ux, table, ui>>

\* ------------------------------------------------------------------------
\* Results and the error chain (core/parse.rs)
\* ------------------------------------------------------------------------

Ok(rest, val) == [tag |-> "Ok", rest |-> rest, val |-> val]

Err(errors) == [tag |-> "Err", errors |-> errors]

Panic(msg) == [tag |-> "Panic", msg |-> msg]

\* The `?` operator on a parse::Result: a failure (or an abort) is returned
\* as it is, a success is handed to the lines that follow.
Bind(r, K(_)) == IF r.tag # "Ok" THEN r ELSE K(r)

Nom(k) == <<"Nom", k>>

Ctx(label) == <<"Context", label>>

\* Error::from_error_kind: a fresh chain of one entry.
from_error_kind(input, k) == Err(<<[input |-> input, kind |-> Nom(k)]>>)

\* add_context inserting the label at the front of the Vec.
add_context_front(input, label, errors) ==
    <<[input |-> input, kind |-> Ctx(label)]>> \o errors

\* Error::add_context pushes (input, Context(ctx)) at the end of the Vec.
add_context(input, label, errors) ==
    Append(errors, [input |-> input, kind |-> Ctx(label)])

\* nom::error::context(label, f)(i): on failure push the label with the
\* input the wrapped parser was entered with.
context(label, i, r) ==
    IF r.tag = "Err" THEN Err(add_context(i, label, r.errors)) ELSE r

\* slice[n..]
Drop(s, n) == SubSeq(s, n + 1, Len(s))

\* slice[..n]
Prefix(s, n) == SubSeq(s, 1, n)

\* nom::bytes::complete::take(n): split at n or fail Eof on the whole input.
take(i, n) ==
    IF n > Len(i) THEN from_error_kind(i, "Eof")
    ELSE Ok(Drop(i, n), Prefix(i, n))

\* An integer as a 16-bit limb pair / quadruple.
BeLimb(i, k) == i[k] * 256 + i[k + 1]

LeLimb(i, k) == i[k + 1] * 256 + i[k]

\* nom::number::complete::{be_u8, le_u8, be_u16, le_u16, be_u32, le_u32, le_u64}
number(i, kind) ==
    LET width == CASE kind = "u8" -> 1
                   [] kind \in {"be_u16", "le_u16"} -> 2
                   [] kind \in {"be_u32", "le_u32"} -> 4
                   [] OTHER -> 8
    IN IF Len(i) < width THEN from_error_kind(i, "Eof")
       ELSE Ok(Drop(i, width),
               CASE kind = "u8" -> i[1]
                 [] kind = "be_u16" -> BeLimb(i, 1)
                 [] kind = "le_u16" -> LeLimb(i, 1)
                 [] kind = "be_u32" -> <<BeLimb(i, 1), BeLimb(i, 3)>>
                 [] kind = "le_u32" -> <<LeLimb(i, 3), LeLimb(i, 1)>>
                 [] OTHER -> <<LeLimb(i, 7), LeLimb(i, 5), LeLimb(i, 3), LeLimb(i, 1)>>)

Pow2(n) == 2 ^ n

\* The accumulation loop of nom::bits::complete::take(count) over the bytes of
\* `input` from index k, entered at bit `offset` with `remaining` bits to go.
\* Yields <<acc, end_offset>>.
RECURSIVE take_bits_loop(_, _, _, _, _)
take_bits_loop(input, k, offset, remaining, acc) ==
    IF remaining = 0 \/ k > Len(input) THEN <<acc, 0>>
    ELSE LET val == input[k] % Pow2(8 - offset)
         IN IF remaining < 8 - offset
            THEN <<acc + (val \div Pow2(8 - offset - remaining)), remaining + offset>>
            ELSE take_bits_loop(input, k + 1, 0, remaining - (8 - offset),
                                acc + val * Pow2(remaining - (8 - offset)))

\* nom::bits::complete::take(count) on the bit cursor (input, bit_offset),
\* as used by BitParsable for u1..u48 (core/parse.rs).
take_bits(input, bit_offset, count) ==
    IF count = 0 THEN [tag |-> "Ok", rest |-> input, offset |-> bit_offset, val |-> 0]
    ELSE IF Len(input) * 8 < count + bit_offset
    THEN [tag |-> "Err", rest |-> input, offset |-> bit_offset]
    ELSE LET cnt == (count + bit_offset) \div 8
             done(r) == [tag |-> "Ok", rest |-> Drop(input, cnt),
                         offset |-> r[2], val |-> r[1]]
         IN done(take_bits_loop(input, 1, bit_offset, count, 0))

\* tuple((uA::parse, uB::parse, ...)) on a bit cursor: the widths in order.
RECURSIVE bit_tuple(_, _, _)
bit_tuple(input, bit_offset, widths) ==
    IF widths = <<>>
    THEN [tag |-> "Ok", rest |-> input, offset |-> bit_offset, val |-> <<>>]
    ELSE Bind(take_bits(input, bit_offset, Head(widths)), LAMBDA r :
         Bind(bit_tuple(r.rest, r.offset, Tail(widths)), LAMBDA t :
         [tag |-> "Ok", rest |-> t.rest, offset |-> t.offset,
          val |-> <<r.val>> \o t.val]))

\* nom::bits::bits(parser)(i): enter at bit 0; on success round the cursor up
\* to the next byte boundary; on failure ErrorConvert maps the bit cursor
\* (rest, offset) to rest[offset / 8 ..].
bits(i, widths) ==
    LET convert(r) ==
            IF r.tag = "Ok"
            THEN Ok(Drop(r.rest, (r.offset \div 8) + (IF r.offset % 8 = 0 THEN 0 ELSE 1)),
                    r.val)
            ELSE from_error_kind(Drop(r.rest, r.offset \div 8), "Eof")
    IN convert(bit_tuple(i, 0, widths))

\* combinator::map(p, f)
map(r, F(_)) == IF r.tag = "Ok" THEN Ok(r.rest, F(r.val)) ELSE r

\* ------------------------------------------------------------------------
\* Leaf parsers shared by the protocol decoders
\* ------------------------------------------------------------------------

\* datalink::Addr::parse: context("MAC address", map(take(6), Addr::new))
datalink_Addr_parse(i) == context("MAC address", i, take(i, 6))

\* EtherType with the discriminants of IPv6 and ARP exchanged.
EtherType_try_from_exchanged(v) ==
    CASE v = 2048 -> "IPv4"
      [] v = 2054 -> "IPv6"
      [] v = 34525 -> "ARP"
      [] OTHER -> "None"

\* #[repr(u16)] enum EtherType with TryFromPrimitive
EtherType_try_from(v) ==
    CASE v = 2048 -> "IPv4"
      [] v = 34525 -> "IPv6"
      [] v = 2054 -> "ARP"
      [] OTHER -> "None"

EtherType_parse(i) == context("EtherType", i, map(number(i, "be_u16"), EtherType_try_from))

\* #[repr(u16)] enum HardwareType: Ethernet = 1, IEEE_802_Networks = 6, ARCNET,
\* FrameRelay = 15, AsyncTransferMode1, HDLC, FibreChannel, AsyncTransferMode2,
\* SerialLine
HardwareType_try_from(v) ==
    CASE v = 1 -> "Ethernet"
      [] v = 6 -> "IEEE_802_Networks"
      [] v = 7 -> "ARCNET"
      [] v = 15 -> "FrameRelay"
      [] v = 16 -> "AsyncTransferMode1"
      [] v = 17 -> "HDLC"
      [] v = 18 -> "FibreChannel"
      [] v = 19 -> "AsyncTransferMode2"
      [] v = 20 -> "SerialLine"
      [] OTHER -> "None"

HardwareType_parse(i) ==
    context("HardwareType", i, map(number(i, "be_u16"), HardwareType_try_from))

\* #[repr(u16)] enum Operation: ARPRequest = 1 .. InARPReply = 9
Operation_try_from(v) ==
    IF v \in 1..9
    THEN <<"ARPRequest", "ARPReply", "RARPRequest", "RARPReply", "DRARPRequest",
           "DRARPReply", "DRARPError", "InARPRequest", "InARPReply">>[v]
    ELSE "None"

Operation_parse(i) == context("Operation", i, map(number(i, "be_u16"), Operation_try_from))

\* ipv4::Addr::parse: context("IPv4 address", take(4)) then copy_from_slice
ipv4_Addr_parse(i) == context("IPv4 address", i, take(i, 4))

\* ipv6::Addr::parse: context("IPv6 address", take(16)) then copy_from_slice
ipv6_Addr_parse(i) == context("IPv6 address", i, take(i, 16))

\* Protocol without the UDP discriminant.
Protocol_from_u8_no_udp(v) ==
    CASE v = 1 -> "ICMP"
      [] v = 6 -> "TCP"
      [] OTHER -> "Unknown"

\* layer3/ip/ip.rs Protocol: ICMP = 1, TCP = 6, UDP = 17, Unknown = 100; the
\* closure of Protocol::parse turns a failed try_from into Some(Unknown).
Protocol_from_u8(v) ==
    CASE v = 1 -> "ICMP"
      [] v = 6 -> "TCP"
      [] v = 17 -> "UDP"
      [] OTHER -> "Unknown"

Protocol_parse(i) == context("IPv4 Protocol", i, map(number(i, "u8"), Protocol_from_u8))

\* ip.rs (the module ipv6.rs imports) Protocol: ICMP = 1, TCP = 6, UDP = 17;
\* Protocol::parse is map(be_u8, Self::try_from), None for every other byte.
ip_Protocol_try_from(v) ==
    CASE v = 1 -> "ICMP"
      [] v = 6 -> "TCP"
      [] v = 17 -> "UDP"
      [] OTHER -> "None"

ip_Protocol_parse(i) == context("IPv4 Protocol", i, map(number(i, "u8"), ip_Protocol_try_from))

\* One line of a decoder body: a named leaf parser applied with `?`.
P(name) == [p |-> name, w |-> <<>>]

\* bits(tuple((u<w1>::parse, u<w2>::parse, ...)))
B(widths) == [p |-> "bits", w |-> widths]

step(i, s) ==
    CASE s.p = "bits" -> bits(i, s.w)
      [] s.p = "MacAddr" -> datalink_Addr_parse(i)
      [] s.p = "Ipv4Addr" -> ipv4_Addr_parse(i)
      [] s.p = "Ipv6Addr" -> ipv6_Addr_parse(i)
      [] s.p = "EtherType" -> EtherType_parse(i)
      [] s.p = "HardwareType" -> HardwareType_parse(i)
      [] s.p = "Operation" -> Operation_parse(i)
      [] s.p = "Protocol" -> Protocol_parse(i)
      [] s.p = "ip_Protocol" -> ip_Protocol_parse(i)
      [] OTHER -> number(i, s.p)

\* A run of `let (i, x) = p(i)?;` lines (or a nom tuple): each parser is fed
\* the remainder of the one before, the first failure is returned as it is,
\* and the values are collected in order.
RECURSIVE steps(_, _)
steps(i, prog) ==
    IF prog = <<>> THEN Ok(i, <<>>)
    ELSE Bind(step(i, Head(prog)), LAMBDA r :
         Bind(steps(r.rest, Tail(prog)), LAMBDA t :
         Ok(t.rest, <<r.val>> \o t.val)))

\* A payload enum value: the variant and what it wraps.
Variant(name, inner) == [variant |-> name, inner |-> inner]

NoInner == <<>>

\* `let (i, x) = p(i)?; (i, Enum::Name(x))`
Tagged(name, r) == IF r.tag # "Ok" THEN r ELSE Ok(r.rest, Variant(name, r.val))

\* ------------------------------------------------------------------------
\* Layer 4: UDP, TCP, ICMP
\* ------------------------------------------------------------------------

\* udp::Datagram::parse
udp_Datagram_parse(i) ==
    context("UDP Frame", i,
        Bind(steps(i, <<P("be_u16"), P("be_u16"), P("be_u16"), P("be_u16")>>), LAMBDA h :
        Ok(h.rest, [src_port |-> h.val[1], dst_port |-> h.val[2], len |-> h.val[3],
                    checksum |-> h.val[4], payload |-> h.rest])))

\* tcp::DataOptions::parse: kind, len, then take(len)
DataOptions_parse(i) ==
    context("TCP Options", i,
        Bind(steps(i, <<P("u8"), P("u8")>>), LAMBDA h :
        Bind(take(h.rest, h.val[2]), LAMBDA d :
        Ok(d.rest, [kind |-> h.val[1], len |-> h.val[2], data |-> d.val]))))

\* tcp::NoData::parse
NoData_parse(i) ==
    context("TCP Options", i,
        Bind(number(i, "u8"), LAMBDA h :
        Ok(h.rest, [kind |-> h.val])))

OptionsData(v) == Variant("Data", v)

OptionsNoData(v) == Variant("NoData", v)

\* tcp::Packet::get_options: i[0] is indexed before any length check.
get_options(i, offset) ==
    IF offset > 5
    THEN IF Len(i) = 0 THEN Panic("index out of bounds: the len is 0 but the index is 0")
         ELSE IF i[1] = 0 \/ i[1] = 1
              THEN map(NoData_parse(i), OptionsNoData)
              ELSE map(DataOptions_parse(i), OptionsData)
    ELSE Ok(i, Variant("Empty", NoInner))

\* tcp::Packet::parse
tcp_Packet_parse(i) ==
    context("TCP Frame", i,
        Bind(steps(i, <<P("be_u16"), P("be_u16"), P("be_u32"), P("be_u32"),
                        B(<<4, 3, 1, 1, 1, 1, 1, 1, 1, 1, 1>>),
                        P("be_u16"), P("be_u16"), P("be_u16")>>), LAMBDA h :
        Bind(get_options(h.rest, h.val[5][1]), LAMBDA o :
        Ok(o.rest, [src_port |-> h.val[1], dst_port |-> h.val[2],
                    seq_num |-> h.val[3], ack_num |-> h.val[4],
                    offset |-> h.val[5][1], reserved |-> h.val[5][2],
                    flags |-> SubSeq(h.val[5], 3, 11),
                    window_size |-> h.val[6], checksum |-> h.val[7],
                    urgent_ptr |-> h.val[8],
                    options |-> o.val, payload |-> o.rest]))))

\* icmp: impl From<(u8, u8)> for Type, with From<u8> for DestinationUnreachable
\* and TimeExceeded
icmp_Type_from(typ, code) ==
    CASE typ = 0 -> <<"EchoReply">>
      [] typ = 3 -> <<"DestinationUnreachable",
                      IF code = 1 THEN <<"HostUnreachable">> ELSE <<"Other", code>>>>
      [] typ = 8 -> <<"EchoRequest">>
      [] typ = 11 -> <<"TimeExceeded",
                       IF code = 0 THEN <<"TTLExpired">> ELSE <<"Other", code>>>>
      [] OTHER -> <<"Other", typ, code>>

\* icmp::Echo::parse
Echo_parse(i) ==
    context("Echo", i,
        Bind(steps(i, <<P("be_u16"), P("be_u16")>>), LAMBDA h :
        Ok(h.rest, [identifier |-> h.val[1], sequence_number |-> h.val[2]])))

HeaderEchoRequest(v) == Variant("EchoRequest", v)

HeaderEchoReply(v) == Variant("EchoReply", v)

HeaderOther(v) == Variant("Other", v)

\* icmp::Packet::parse
icmp_Packet_parse(i) ==
    context("ICMP frame", i,
        Bind(steps(i, <<P("u8"), P("u8"), P("be_u16")>>), LAMBDA h :
        LET typ == icmp_Type_from(h.val[1], h.val[2])
        IN Bind((CASE typ[1] = "EchoRequest" -> map(Echo_parse(h.rest), HeaderEchoRequest)
                   [] typ[1] = "EchoReply" -> map(Echo_parse(h.rest), HeaderEchoReply)
                   [] OTHER -> map(number(h.rest, "be_u32"), HeaderOther)), LAMBDA hd :
           Ok(hd.rest, [typ |-> typ, checksum |-> h.val[3], header |-> hd.val,
                        payload |-> hd.rest]))))

\* ------------------------------------------------------------------------
\* Layer 3: IPv4, IPv6, ARP
\* ------------------------------------------------------------------------

PayloadTCP(v) == Variant("TCP", v)

PayloadUDP(v) == Variant("UDP", v)

PayloadICMP(v) == Variant("ICMP", v)

\* A `match protocol` that falls back to Unknown when the layer-4 decoder
\* fails (`.unwrap_or((i, Payload::Unknown))` in place of `?`).
l4_dispatch_lenient(protocol, i) ==
    LET r == CASE protocol = "TCP" -> map(tcp_Packet_parse(i), PayloadTCP)
               [] protocol = "UDP" -> map(udp_Datagram_parse(i), PayloadUDP)
               [] protocol = "ICMP" -> map(icmp_Packet_parse(i), PayloadICMP)
               [] OTHER -> Ok(i, Variant("Unknown", NoInner))
    IN IF r.tag = "Err" THEN Ok(i, Variant("Unknown", NoInner)) ELSE r

\* A `match protocol` whose fallback arm drains the input.
l4_dispatch_draining(protocol, i) ==
    CASE protocol = "TCP" -> map(tcp_Packet_parse(i), PayloadTCP)
      [] protocol = "UDP" -> map(udp_Datagram_parse(i), PayloadUDP)
      [] protocol = "ICMP" -> map(icmp_Packet_parse(i), PayloadICMP)
      [] OTHER -> Ok(<<>>, Variant("Unknown", NoInner))

\* The `match protocol` of ipv4::Packet::parse and ipv6::Packet::parse.
l4_dispatch(protocol, i) ==
    CASE protocol = "TCP" -> map(tcp_Packet_parse(i), PayloadTCP)
      [] protocol = "UDP" -> map(udp_Datagram_parse(i), PayloadUDP)
      [] protocol = "ICMP" -> map(icmp_Packet_parse(i), PayloadICMP)
      [] OTHER -> Ok(i, Variant("Unknown", NoInner))

\* An IPv4 decode that skips (ihl - 5) * 4 option bytes before the layer-4
\* dispatch.
ipv4_Packet_parse_skipping_options(i) ==
    context("IPv4 frame", i,
        Bind(steps(i, <<B(<<4, 4>>), B(<<6, 2>>), P("be_u16"), P("be_u16"),
                        B(<<3, 13>>), P("u8"), P("Protocol"), P("be_u16"),
                        P("Ipv4Addr"), P("Ipv4Addr")>>), LAMBDA h :
        Bind(take(h.rest, IF h.val[1][2] > 5 THEN (h.val[1][2] - 5) * 4 ELSE 0), LAMBDA o :
        Bind(l4_dispatch(h.val[7], o.rest), LAMBDA p :
        Ok(p.rest, [version |-> h.val[1][1], ihl |-> h.val[1][2],
                    dscp |-> h.val[2][1], ecn |-> h.val[2][2],
                    length |-> h.val[3], identification |-> h.val[4],
                    flags |-> h.val[5][1], fragment_offset |-> h.val[5][2],
                    ttl |-> h.val[6], protocol |-> h.val[7],
                    checksum |-> h.val[8], src |-> h.val[9], dst |-> h.val[10],
                    payload |-> p.val])))))

\* ipv4::Packet::parse
ipv4_Packet_parse(i) ==
    context("IPv4 frame", i,
        Bind(steps(i, <<B(<<4, 4>>), B(<<6, 2>>), P("be_u16"), P("be_u16"),
                        B(<<3, 13>>), P("u8"), P("Protocol"), P("be_u16"),
                        P("Ipv4Addr"), P("Ipv4Addr")>>), LAMBDA h :
        Bind(l4_dispatch(h.val[7], h.rest), LAMBDA p :
        Ok(p.rest, [version |-> h.val[1][1], ihl |-> h.val[1][2],
                    dscp |-> h.val[2][1], ecn |-> h.val[2][2],
                    length |-> h.val[3], identification |-> h.val[4],
                    flags |-> h.val[5][1], fragment_offset |-> h.val[5][2],
                    ttl |-> h.val[6], protocol |-> h.val[7],
                    checksum |-> h.val[8], src |-> h.val[9], dst |-> h.val[10],
                    payload |-> p.val]))))

\* ipv6::Packet::parse
ipv6_Packet_parse(i) ==
    context("IPv6 frame", i,
        Bind(steps(i, <<B(<<4, 8, 20>>), P("be_u16"), P("ip_Protocol"), P("u8"),
                        P("Ipv6Addr"), P("Ipv6Addr")>>), LAMBDA h :
        Bind(l4_dispatch(h.val[3], h.rest), LAMBDA p :
        Ok(p.rest, [version |-> h.val[1][1], traffic_class |-> h.val[1][2],
                    flow_label |-> h.val[1][3], payload_len |-> h.val[2],
                    protocol |-> h.val[3], ttl |-> h.val[4],
                    src |-> h.val[5], dst |-> h.val[6], payload |-> p.val]))))

\* arp::Packet::parse
arp_Packet_parse(i) ==
    context("ARP Frame", i,
        Bind(steps(i, <<P("HardwareType"), P("EtherType"), P("u8"), P("u8"),
                        P("Operation"), P("MacAddr"), P("Ipv4Addr"),
                        P("MacAddr"), P("Ipv4Addr")>>), LAMBDA h :
        Ok(h.rest, [htype |-> h.val[1], ptype |-> h.val[2], hlen |-> h.val[3],
                    plen |-> h.val[4], operation |-> h.val[5],
                    sender_hw_addr |-> h.val[6], sender_ip_addr |-> h.val[7],
                    target_hw_addr |-> h.val[8], target_ip_addr |-> h.val[9]])))

\* ------------------------------------------------------------------------
\* Layer 2: Ethernet
\* ------------------------------------------------------------------------

PayloadIPv4(v) == Variant("IPv4", v)

PayloadIPv6(v) == Variant("IPv6", v)

PayloadARP(v) == Variant("ARP", v)

\* ethernet::Frame::parse
ethernet_Frame_parse(i) ==
    context("Ethernet frame", i,
        Bind(steps(i, <<P("MacAddr"), P("MacAddr"), P("EtherType")>>), LAMBDA h :
        Bind((CASE h.val[3] = "IPv4" -> map(ipv4_Packet_parse(h.rest), PayloadIPv4)
               [] h.val[3] = "IPv6" -> map(ipv6_Packet_parse(h.rest), PayloadIPv6)
               [] h.val[3] = "ARP" -> map(arp_Packet_parse(h.rest), PayloadARP)
               [] OTHER -> Ok(h.rest, Variant("Unknown", NoInner))), LAMBDA p :
        Ok(p.rest, [dst |-> h.val[1], src |-> h.val[2],
                    ether_type |-> h.val[3], payload |-> p.val]))))

\* ------------------------------------------------------------------------
\* Arithmetic and text conversions the decoders rely on
\* ------------------------------------------------------------------------

\* `a - b` on u8: with overflow checks (debug profile) an underflow panics,
\* without them (release profile) it wraps modulo 2^8.
u8_sub(a, b) ==
    IF a >= b THEN Ok(<<>>, a - b)
    ELSE IF overflow_checks THEN Panic("attempt to subtract with overflow")
    ELSE Ok(<<>>, a - b + 256)

\* static SEQ_CONTROL_SIZE: usize = 4 (dot11.rs and management.rs)
SEQ_CONTROL_SIZE == 4

\* take(a - b) with a, b: usize.  An underflow panics with overflow checks;
\* without them the count wraps to at least 2^64 - b, more than any slice
\* holds, so take fails with Eof.
take_usize_sub(i, a, b) ==
    IF a >= b THEN take(i, a - b)
    ELSE IF overflow_checks THEN Panic("attempt to subtract with overflow")
    ELSE from_error_kind(i, "Eof")

IsCont(s, k) == k <= Len(s) /\ s[k] \in 128..191

\* std::str::from_utf8(s).is_ok(): the well-formed byte sequences of UTF-8.
RECURSIVE is_utf8(_, _)
is_utf8(s, k) ==
    IF k > Len(s) THEN TRUE
    ELSE LET b == s[k]
         IN CASE b < 128 -> is_utf8(s, k + 1)
              [] b \in 194..223 -> IsCont(s, k + 1) /\ is_utf8(s, k + 2)
              [] b = 224 -> k + 1 <= Len(s) /\ s[k + 1] \in 160..191 /\ IsCont(s, k + 2)
                            /\ is_utf8(s, k + 3)
              [] b \in (225..236) \cup {238, 239} ->
                            IsCont(s, k + 1) /\ IsCont(s, k + 2) /\ is_utf8(s, k + 3)
              [] b = 237 -> k + 1 <= Len(s) /\ s[k + 1] \in 128..159 /\ IsCont(s, k + 2)
                            /\ is_utf8(s, k + 3)
              [] b = 240 -> k + 1 <= Len(s) /\ s[k + 1] \in 144..191 /\ IsCont(s, k + 2)
                            /\ IsCont(s, k + 3) /\ is_utf8(s, k + 4)
              [] b \in 241..243 -> IsCont(s, k + 1) /\ IsCont(s, k + 2) /\ IsCont(s, k + 3)
                            /\ is_utf8(s, k + 4)
              [] b = 244 -> k + 1 <= Len(s) /\ s[k + 1] \in 128..143 /\ IsCont(s, k + 2)
                            /\ IsCont(s, k + 3) /\ is_utf8(s, k + 4)
              [] OTHER -> FALSE

\* ------------------------------------------------------------------------
\* 802.11 management: fixed fields
\* ------------------------------------------------------------------------

\* management::CapabilityInfo::parse: two bits(...) sections of eight u1 each
CapabilityInfo_parse(i) ==
    context("802.11 Management Frame CapabilityInfo", i,
        Bind(steps(i, <<B(<<1, 1, 1, 1, 1, 1, 1, 1>>), B(<<1, 1, 1, 1, 1, 1, 1, 1>>)>>), LAMBDA h :
        Ok(h.rest, [ess |-> h.val[1][1], ibss |-> h.val[1][2],
                    cf_pollable |-> h.val[1][3], cf_poll_request |-> h.val[1][4],
                    privacy |-> h.val[1][5], short_preamble |-> h.val[1][6],
                    pbcc |-> h.val[1][7], channel_agility |-> h.val[1][8],
                    short_slot_time |-> h.val[2][3], dsss_ofdm |-> h.val[2][6]])))

\* ReasonCode: #[repr(u16)] Reserved1 = 0 .. Reserved3 = 23, rendered as text;
\* the value kept here is the discriminant, -1 for "Unknown reason code".
ReasonCode_parse(i) ==
    context("Reason Code", i,
        Bind(number(i, "le_u16"), LAMBDA h :
        Ok(h.rest, IF h.val \in 0..23 THEN h.val ELSE -1)))

\* StatusCode: #[repr(u16)] Success = 0, Unspecified, Reserved1, Unsupported1 =
\* 0xA .. Unsupported6 = 0x23; -1 for "Unknown status code".
StatusCode_parse(i) ==
    context("Status Code", i,
        Bind(number(i, "le_u16"), LAMBDA h :
        Ok(h.rest, IF h.val \in (0..2) \cup (10..35) THEN h.val ELSE -1)))

\* AuthenticationAlgorithm: #[repr(u16)] OpenSystemAuthentication,
\* SharedKeyAuthentication, Reserved
AuthenticationAlgorithm_try_from(v) ==
    CASE v = 0 -> "OpenSystemAuthentication"
      [] v = 1 -> "SharedKeyAuthentication"
      [] v = 2 -> "Reserved"
      [] OTHER -> "None"

AuthenticationAlgorithm_parse(i) ==
    context("802.11 Management Frame: auth algo", i,
        map(number(i, "le_u16"), AuthenticationAlgorithm_try_from))

\* ------------------------------------------------------------------------
\* 802.11 management: information elements
\* ------------------------------------------------------------------------

CommonFieldsElement(id, len) == [id |-> id, len |-> len]

\* management::SupportedRate::parse
SupportedRate_parse(i) ==
    context("802.11 Management Frame Supported Rate", i,
        Bind(bits(i, <<7, 1>>), LAMBDA h :
        Ok(h.rest, [label |-> h.val[1], is_mandatory |-> h.val[2]])))

\* management::CountryConstraintTriplet::parse
CountryConstraintTriplet_parse(i) ==
    context("802.11 Management Frame Country Constaint Triplet", i,
        Bind(steps(i, <<P("u8"), P("u8"), P("u8")>>), LAMBDA h :
        Ok(h.rest, [first_channel_num |-> h.val[1], num_channels |-> h.val[2],
                    max_transmit_power |-> h.val[3]])))

\* management::IBSSDFSChannelMap::parse: five u1 inside one bits(...) section
IBSSDFSChannelMap_parse(i) ==
    context("802.11 Management Frame Channel Map", i,
        Bind(bits(i, <<1, 1, 1, 1, 1>>), LAMBDA h :
        Ok(h.rest, [bss |-> h.val[1], ofdm_preamble |-> h.val[2],
                    unidentified |-> h.val[3], radar |-> h.val[4],
                    unmeasured |-> h.val[5]])))

\* management::IBSSDFSChannelTuple::parse
IBSSDFSChannelTuple_parse(i) ==
    context("802.11 Management Frame IBSSDFS Channel Tuple", i,
        Bind(number(i, "u8"), LAMBDA h :
        Bind(IBSSDFSChannelMap_parse(h.rest), LAMBDA m :
        Ok(m.rest, [channel_num |-> h.val, channel_map |-> m.val]))))

RECURSIVE Element_parse(_)

\* The parser handed to many0, by name.
item_parse(kind, i) ==
    CASE kind = "SupportedRate" -> SupportedRate_parse(i)
      [] kind = "CountryConstraintTriplet" -> CountryConstraintTriplet_parse(i)
      [] kind = "IBSSDFSChannelTuple" -> IBSSDFSChannelTuple_parse(i)
      [] OTHER -> Element_parse(i)

\* nom::multi::many0(f)(i): collect until f fails with a recoverable error;
\* a success that consumed nothing is the error Many0.
RECURSIVE many0_loop(_, _, _)
many0_loop(kind, i, acc) ==
    LET next(r) ==
            IF r.tag = "Err" THEN Ok(i, acc)
            ELSE IF r.tag # "Ok" THEN r
            ELSE IF r.rest = i THEN from_error_kind(i, "Many0")
            ELSE many0_loop(kind, r.rest, Append(acc, r.val))
    IN next(item_parse(kind, i))

many0(kind, i) == many0_loop(kind, i, <<>>)

\* The shape of parse_rates, parse_triplets and parse_maps: take(len), run
\* many0 on the taken window, drop the window's remainder, continue after it.
parse_window(kind, i, len) ==
    Bind(take(i, len), LAMBDA t :
    Bind(many0(kind, t.val), LAMBDA m :
    Ok(t.rest, m.val)))

\* management::UnknownElement::parse
UnknownElement_parse(i, id, len) ==
    context("802.11 Management Frame Body Unknown Element", i,
        Bind(take(i, len), LAMBDA t :
        Ok(t.rest, [id |-> id, len |-> len])))

\* management::SupportedRates::parse with parse_rates
SupportedRates_parse(i, id, len) ==
    context("802.11 Management Frame Supported Rates", i,
        Bind(parse_window("SupportedRate", i, len), LAMBDA r :
        Ok(r.rest, [common |-> CommonFieldsElement(id, len), supported_rates |-> r.val])))

\* The elements of fixed shape: FHParamSet, DSParamSet, IBSSParamSet,
\* PowerConstraint, TPCReport, SupportedChannelsElement,
\* ChannelSwitchAnnouncement, QuietElement, ERPInfo.  Each reads its fields
\* whatever `len` says and keeps `len` in `common`.
fixed_element_parse(label, prog, i, id, len) ==
    context(label, i,
        Bind(steps(i, prog), LAMBDA h :
        Ok(h.rest, [common |-> CommonFieldsElement(id, len), fields |-> h.val])))

\* management::Country::parse with parse_triplets
Country_parse(i, id, len) ==
    context("802.11 Management Frame Country Field", i,
        Bind(take(i, 3), LAMBDA t :
        IF ~is_utf8(t.val, 1)
        THEN Panic("Invalid country string: Failed to convert binary to UTF-8 string.")
        ELSE Bind(u8_sub(len, 3), LAMBDA n :
             Bind(parse_window("CountryConstraintTriplet", t.rest, n.val), LAMBDA c :
             Ok(c.rest, [common |-> CommonFieldsElement(id, len),
                         country_string |-> t.val, constraints |-> c.val])))))

\* management::TrafficIndicationMap::parse
TrafficIndicationMap_parse(i, id, len) ==
    context("802.11 Management Frame Traffic Indication Map", i,
        Bind(steps(i, <<P("u8"), P("u8"), P("u8")>>), LAMBDA h :
        Bind(u8_sub(len, 3), LAMBDA n :
        Bind(take(h.rest, n.val), LAMBDA t :
        Ok(t.rest, [common |-> CommonFieldsElement(id, len),
                    dtim_count |-> h.val[1], dtim_period |-> h.val[2],
                    bitmap_control |-> h.val[3],
                    partial_virtual_bitmap |-> t.val])))))

\* management::SSID::parse: from_utf8(..).unwrap_or("Invalid/Malformed SSID")
SSID_parse(i, id, len) ==
    context("802.11 Management Frame SSID", i,
        Bind(take(i, len), LAMBDA t :
        Ok(t.rest, [common |-> CommonFieldsElement(id, len),
                    malformed |-> ~is_utf8(t.val, 1),
                    ssid |-> IF is_utf8(t.val, 1) THEN t.val ELSE <<>>])))

\* management::RequestElement::parse
RequestElement_parse(i, id, len) ==
    context("802.11 Management Frame Requested Elements", i,
        Bind(take(i, len), LAMBDA t :
        Ok(t.rest, [common |-> CommonFieldsElement(id, len),
                    requested_elements |-> t.val])))

\* management::ChallengeText::parse: from_utf8(..).expect(..)
ChallengeText_parse(i, id, len) ==
    context("802.11 Management Frame Challenge Text", i,
        Bind(take(i, len), LAMBDA t :
        IF ~is_utf8(t.val, 1) THEN Panic("Invalid conversion of challenge text.")
        ELSE Ok(t.rest, [common |-> CommonFieldsElement(id, len),
                         challenge_text |-> t.val])))

\* management::IBSSDFS::parse with parse_maps
IBSSDFS_parse(i, id, len) ==
    context("802.11 Management Frame IBSSDFS", i,
        Bind(steps(i, <<P("MacAddr"), P("u8")>>), LAMBDA h :
        Bind(u8_sub(len, 7), LAMBDA n :
        Bind(parse_window("IBSSDFSChannelTuple", h.rest, n.val), LAMBDA c :
        Ok(c.rest, [common |-> CommonFieldsElement(id, len),
                    dfs_owner |-> h.val[1],
                    dfs_recovery_interval |-> h.val[2],
                    channel_maps |-> c.val])))))

\* The `match id` of Element::parse: each arm runs the element's parser and
\* wraps what it yields in the Element variant.
element_dispatch(i, id, len) ==
    CASE id = 0 -> Tagged("SSID", SSID_parse(i, id, len))
      [] id = 1 -> Tagged("SupportedRates", SupportedRates_parse(i, id, len))
      [] id = 2 -> Tagged("FHParameterSet",
                      fixed_element_parse("802.11 Management Frame FH Parameter Set",
                          <<P("le_u16"), P("u8"), P("u8"), P("u8")>>, i, id, len))
      [] id = 3 -> Tagged("DSParameterSet",
                      fixed_element_parse("802.11 Management Frame DS Parameter Set",
                          <<P("u8")>>, i, id, len))
      [] id = 5 -> Tagged("TrafficIndicationMap", TrafficIndicationMap_parse(i, id, len))
      [] id = 6 -> Tagged("IBSSParameterSet",
                      fixed_element_parse("802.11 Management Frame IBSS Parameter Set",
                          <<P("le_u16")>>, i, id, len))
      [] id = 7 -> Tagged("Country", Country_parse(i, id, len))
      [] id = 10 -> Tagged("Request", RequestElement_parse(i, id, len))
      [] id = 16 -> Tagged("ChallengeText", ChallengeText_parse(i, id, len))
      [] id = 32 -> Tagged("PowerConstraint",
                       fixed_element_parse("802.11 Management Frame Power Constraint",
                           <<P("u8")>>, i, id, len))
      [] id = 35 -> Tagged("TPCReport",
                       fixed_element_parse("802.11 Management Frame TPC Report",
                           <<P("u8"), P("u8")>>, i, id, len))
      [] id = 36 -> Tagged("SupportedChannels",
                       fixed_element_parse("802.11 Management Frame Supported Channels",
                           <<P("u8"), P("u8")>>, i, id, len))
      [] id = 37 -> Tagged("ChannelSwitchAnnouncements",
                       fixed_element_parse("802.11 Management Frame Channel Switch Announcement",
                           <<P("u8"), P("u8"), P("u8")>>, i, id, len))
      [] id = 40 -> Tagged("Quiet",
                       fixed_element_parse("802.11 Management Frame Quiet Element",
                           <<P("u8"), P("u8"), P("le_u16"), P("le_u16")>>, i, id, len))
      [] id = 41 -> Tagged("IBSS_DFS", IBSSDFS_parse(i, id, len))
      [] id = 42 -> Tagged("ERPInfo",
                       fixed_element_parse("802.11 Management Frame IBSSDFS",
                           <<B(<<1, 1, 1>>)>>, i, id, len))
      [] OTHER -> Tagged("Unknown", UnknownElement_parse(i, id, len))

\* management::Element::parse
Element_parse(i) ==
    context("802.11 Management Frame: Variable Sized Management Info Element", i,
        Bind(steps(i, <<P("u8"), P("u8")>>), LAMBDA h :
        element_dispatch(h.rest, h.val[1], h.val[2])))

\* parse_optional_fields continuing from where many0 stopped inside the
\* window instead of after the window.
parse_optional_fields_window_rest(i) ==
    Bind(take_usize_sub(i, Len(i), SEQ_CONTROL_SIZE), LAMBDA t :
    Bind(many0("Element", t.val), LAMBDA m :
    Ok(m.rest, m.val)))

\* management::Element::parse_optional_fields
parse_optional_fields(i) ==
    Bind(take_usize_sub(i, Len(i), SEQ_CONTROL_SIZE), LAMBDA t :
    Bind(many0("Element", t.val), LAMBDA m :
    Ok(t.rest, m.val)))

\* ------------------------------------------------------------------------
\* 802.11 management: frame bodies
\* ------------------------------------------------------------------------

\* n times `let (i, e) = Element::parse(i)?;`
RECURSIVE elements(_, _)
elements(i, n) ==
    IF n = 0 THEN Ok(i, <<>>)
    ELSE Bind(Element_parse(i), LAMBDA r :
         Bind(elements(r.rest, n - 1), LAMBDA t :
         Ok(t.rest, <<r.val>> \o t.val)))

\* BeaconFrameBody::parse and ProbeResponseFrameBody::parse: the same lines
\* under two context labels.
beacon_like_parse(label, i) ==
    context(label, i,
        Bind(steps(i, <<P("le_u64"), P("le_u16")>>), LAMBDA h :
        Bind(CapabilityInfo_parse(h.rest), LAMBDA c :
        Bind(parse_optional_fields(c.rest), LAMBDA d :
        Ok(d.rest, [timestamp |-> h.val[1], beacon_interval |-> h.val[2],
                    capability_info |-> c.val, dynamic_fields |-> d.val])))))

BeaconFrameBody_parse(i) == beacon_like_parse("802.11 Management Frame: Beacon Body", i)

ProbeResponseFrameBody_parse(i) ==
    beacon_like_parse("802.11 Management Frame: Probe repsonse body", i)

\* management::ProbeRequestFrameBody::parse
ProbeRequestFrameBody_parse(i) ==
    context("802.11 Management Frame: Probe request body", i,
        Bind(elements(i, 3), LAMBDA e :
        Ok(e.rest, [ssid |-> e.val[1], supported_rates |-> e.val[2],
                    extended_support_rates |-> e.val[3]])))

\* management::AssociationRequestFrameBody::parse
AssociationRequestFrameBody_parse(i) ==
    context("802.11 Management Frame: association request body", i,
        Bind(CapabilityInfo_parse(i), LAMBDA c :
        Bind(number(c.rest, "le_u16"), LAMBDA l :
        Bind(elements(l.rest, 2), LAMBDA e :
        Ok(e.rest, [capability_info |-> c.val, listen_interval |-> l.val,
                    ssid |-> e.val[1], supported_rates |-> e.val[2]])))))

\* management::ReassociationRequestFrameBody::parse
ReassociationRequestFrameBody_parse(i) ==
    context("802.11 Management Frame: reassociation request body", i,
        Bind(CapabilityInfo_parse(i), LAMBDA c :
        Bind(steps(c.rest, <<P("le_u16"), P("MacAddr")>>), LAMBDA l :
        Bind(elements(l.rest, 2), LAMBDA e :
        Ok(e.rest, [capability_info |-> c.val, listen_interval |-> l.val[1],
                    current_ap_address |-> l.val[2],
                    ssid |-> e.val[1], supported_rates |-> e.val[2]])))))

\* management::AssociationResponseFrameBody::parse
AssociationResponseFrameBody_parse(i) ==
    context("802.11 Management Frame: association request body", i,
        Bind(CapabilityInfo_parse(i), LAMBDA c :
        Bind(StatusCode_parse(c.rest), LAMBDA st :
        Bind(number(st.rest, "le_u16"), LAMBDA a :
        Bind(Element_parse(a.rest), LAMBDA e :
        Ok(e.rest, [capability_info |-> c.val,
                    status_code |-> st.val,
                    association_id |-> a.val,
                    supported_rates |-> e.val]))))))

\* management::AuthenticationFrameBody::parse
AuthenticationFrameBody_parse(i) ==
    context("802.11 Management Frame: auth frame body", i,
        Bind(AuthenticationAlgorithm_parse(i), LAMBDA al :
        Bind(number(al.rest, "le_u16"), LAMBDA sq :
        Bind(StatusCode_parse(sq.rest), LAMBDA st :
        Bind(Element_parse(st.rest), LAMBDA e :
        Ok(e.rest, [algo_num |-> al.val, auth_seq |-> sq.val,
                    status_code |-> st.val,
                    challenge_text |-> e.val]))))))

\* management::DeauthenticationFrameBody::parse
DeauthenticationFrameBody_parse(i) ==
    context("802.11 Management Frame: deauthentication", i,
        Bind(ReasonCode_parse(i), LAMBDA r :
        Ok(r.rest, [reason_code |-> r.val])))

\* ------------------------------------------------------------------------
\* RadioTap and the 802.11 MAC frame
\* ------------------------------------------------------------------------

\* A RadioTap decode that leaves the cursor behind the eight fixed bytes.
RadioTapHeader_parse_fixed(i) ==
    context("802.11 Radiotap Header", i,
        Bind(steps(i, <<P("u8"), P("u8"), P("le_u16"), P("le_u32")>>), LAMBDA h :
        Ok(h.rest, [it_version |-> h.val[1], it_pad |-> h.val[2],
                    it_len |-> h.val[3], it_present |-> h.val[4]])))

\* radiotap::RadioTapHeader::parse: the four fixed fields are read from a
\* cursor that is then discarded; the remainder is original_i[it_len..].
RadioTapHeader_parse(i) ==
    context("802.11 Radiotap Header", i,
        Bind(steps(i, <<P("u8"), P("u8"), P("le_u16"), P("le_u32")>>), LAMBDA h :
        Bind(take(i, h.val[3]), LAMBDA t :
        Ok(t.rest, [it_version |-> h.val[1], it_pad |-> h.val[2],
                    it_len |-> h.val[3], it_present |-> h.val[4]]))))

\* data::DataFrameBody::parse: the payload is i[..len - (SEQ_CONTROL_SIZE - 1)]
\* (all of i when that underflows) and the returned remainder is i itself.
DataFrameBody_parse(i) ==
    context("802.11 Data Frame: Data frame body", i,
        Ok(i, [payload |-> IF Len(i) >= SEQ_CONTROL_SIZE - 1
                           THEN Prefix(i, Len(i) - (SEQ_CONTROL_SIZE - 1))
                           ELSE i]))

\* impl From<u2> for dot11::Type
Type_from(v) ==
    CASE v = 0 -> "Management"
      [] v = 1 -> "Control"
      [] v = 2 -> "Data"
      [] OTHER -> "Extension"

\* A subtype decode that reads the 4-bit subtype in the Management row
\* whatever the type.
Subtype_from_type_untyped(typ, st) ==
    <<"AssociationRequest", "AssociationResponse", "ReassociationRequest",
      "ReassociationResponse", "ProbeRequest", "ProbeResponse", "TimingAdvertisement",
      "Reserved1", "Beacon", "ATIM", "Disassociation", "Authentication",
      "Deauthentication", "Action", "NACK", "Reserved2">>[st + 1]

\* dot11::Subtype::from_type
Subtype_from_type(typ, st) ==
    CASE typ = "Management" ->
            <<"AssociationRequest", "AssociationResponse", "ReassociationRequest",
              "ReassociationResponse", "ProbeRequest", "ProbeResponse", "TimingAdvertisement",
              "Reserved1", "Beacon", "ATIM", "Disassociation", "Authentication",
              "Deauthentication", "Action", "NACK", "Reserved2">>[st + 1]
      [] typ = "Control" /\ st \in {0, 1} -> "Reserved3"
      [] typ = "Control" /\ st = 2 -> "Trigger"
      [] typ = "Control" /\ st >= 4 ->
            <<"BeamformingReportPoll", "VHT_OR_HE_NDP_Announcement", "ControlFrameExtension",
              "ControlWrapper", "BAR", "BA", "PSPoll", "RequestToSend", "ClearToSend", "ACK",
              "CFEnd", "CFEnd_And_CFAck">>[st - 3]
      [] typ = "Data" ->
            <<"Data", "Data_And_CFAck", "Data_And_CFPoll", "Data_And_CFAck_And_CFPoll", "Null",
              "CFAck_NoData", "CFPoll_NoData", "CFAck_And_CFPoll_NoData", "QoSData",
              "QoSData_And_CFAck", "QoSData_And_CFPoll", "QoSData_And_CFAck_And_CFPoll",
              "QoSNull", "Reserved4", "QoS_CFPoll", "QoS_CFAck_And_CFPoll">>[st + 1]
      [] typ = "Extension" /\ st = 0 -> "DMGBeacon"
      [] typ = "Extension" /\ st # 0 -> "Reserved5"
      [] OTHER -> "Unknown"

\* dot11::ControlFlags::parse: eight u1, MSB first
ControlFlags_parse(i) ==
    context("802.11 Frame Control Flags", i,
        Bind(bits(i, <<1, 1, 1, 1, 1, 1, 1, 1>>), LAMBDA h :
        Ok(h.rest, [order |-> h.val[1], protected |-> h.val[2], more_data |-> h.val[3],
                    power_mgmt |-> h.val[4], retry |-> h.val[5],
                    more_fragments |-> h.val[6], from_ds |-> h.val[7],
                    to_ds |-> h.val[8]])))

\* dot11::FrameControl::parse
FrameControl_parse(i) ==
    context("802.11 Frame Control", i,
        Bind(bits(i, <<4, 2, 2>>), LAMBDA h :
        Bind(ControlFlags_parse(h.rest), LAMBDA f :
        Ok(f.rest, [version |-> h.val[3], typ |-> Type_from(h.val[2]),
                    subtype |-> Subtype_from_type(Type_from(h.val[2]), h.val[1]),
                    flags |-> f.val]))))

\* dot11::SeqControl::parse: bits(tuple((u4::parse, u12::parse)))
SeqControl_parse(i) ==
    context("802.11 Sequence Control", i,
        Bind(bits(i, <<4, 12>>), LAMBDA h :
        Ok(h.rest, [frag_num |-> h.val[1], seq_num |-> h.val[2]])))

\* Option::None for addr2, addr3, seq_control, addr4
None == <<"None">>

Some(v) == <<"Some", v>>

\* a Dot11Addr: the tag assigned by parse_addr and the six bytes
Dot11Addr(tag, addr) == [tag |-> tag, addr |-> addr]

\* The three addresses and sequence control read for Data and Management.
addr3_seq(i) ==
    Bind(steps(i, <<P("MacAddr"), P("MacAddr"), P("MacAddr")>>), LAMBDA a :
    Bind(SeqControl_parse(a.rest), LAMBDA q :
    Ok(q.rest, Append(a.val, q.val))))

\* parse_addr tagging every Data frame as if to_ds = from_ds = 0.
parse_addr_ignoring_ds(i, fc) ==
    CASE fc.typ \in {"Data", "Management"} ->
            Bind(addr3_seq(i), LAMBDA h :
            Ok(h.rest, <<Dot11Addr("DestinationAddress", h.val[1]),
                         Some(Dot11Addr("SourceAddress", h.val[2])),
                         Some(Dot11Addr("BSSID", h.val[3])),
                         Some(h.val[4]), None>>))
      [] fc.typ = "Control" /\ fc.subtype \in {"RequestToSend", "PSPoll"} ->
            Bind(steps(i, <<P("MacAddr"), P("MacAddr")>>), LAMBDA h :
            Ok(h.rest, <<Dot11Addr(IF fc.subtype = "PSPoll" THEN "BSSID"
                                   ELSE "ReceiverAddress", h.val[1]),
                         Some(Dot11Addr("TransmitterAddress", h.val[2])),
                         None, None, None>>))
      [] OTHER ->
            Bind(datalink_Addr_parse(i), LAMBDA h :
            Ok(h.rest, <<Dot11Addr("ReceiverAddress", h.val), None, None, None, None>>))

\* dot11::Frame::parse_addr, yielding <<addr1, addr2, addr3, seq_control, addr4>>
parse_addr(i, fc) ==
    CASE fc.typ = "Data" ->
            Bind(addr3_seq(i), LAMBDA h :
            CASE fc.flags.to_ds = 0 /\ fc.flags.from_ds = 0 ->
                    Ok(h.rest, <<Dot11Addr("DestinationAddress", h.val[1]),
                                 Some(Dot11Addr("SourceAddress", h.val[2])),
                                 Some(Dot11Addr("BSSID", h.val[3])),
                                 Some(h.val[4]), None>>)
              [] fc.flags.to_ds = 1 /\ fc.flags.from_ds = 0 ->
                    Ok(h.rest, <<Dot11Addr("BSSID", h.val[1]),
                                 Some(Dot11Addr("SourceAddress", h.val[2])),
                                 Some(Dot11Addr("DestinationAddress", h.val[3])),
                                 Some(h.val[4]), None>>)
              [] fc.flags.to_ds = 0 /\ fc.flags.from_ds = 1 ->
                    Ok(h.rest, <<Dot11Addr("DestinationAddress", h.val[1]),
                                 Some(Dot11Addr("BSSID", h.val[2])),
                                 Some(Dot11Addr("SourceAddress", h.val[3])),
                                 Some(h.val[4]), None>>)
              [] OTHER ->
                    Bind(datalink_Addr_parse(h.rest), LAMBDA a4 :
                    Ok(a4.rest, <<Dot11Addr("ReceiverAddress", h.val[1]),
                                  Some(Dot11Addr("TransmitterAddress", h.val[2])),
                                  Some(Dot11Addr("DestinationAddress", h.val[3])),
                                  Some(h.val[4]),
                                  Some(Dot11Addr("SourceAddress", a4.val))>>)))
      [] fc.typ = "Control" /\ fc.subtype \in {"RequestToSend", "PSPoll"} ->
            Bind(steps(i, <<P("MacAddr"), P("MacAddr")>>), LAMBDA h :
            Ok(h.rest, <<Dot11Addr(IF fc.subtype = "PSPoll" THEN "BSSID"
                                   ELSE "ReceiverAddress", h.val[1]),
                         Some(Dot11Addr("TransmitterAddress", h.val[2])),
                         None, None, None>>))
      [] fc.typ = "Management" ->
            Bind(addr3_seq(i), LAMBDA h :
            Ok(h.rest, <<Dot11Addr("DestinationAddress", h.val[1]),
                         Some(Dot11Addr("SourceAddress", h.val[2])),
                         Some(Dot11Addr("BSSID", h.val[3])),
                         Some(h.val[4]), None>>))
      [] OTHER ->
            Bind(datalink_Addr_parse(i), LAMBDA h :
            Ok(h.rest, <<Dot11Addr("ReceiverAddress", h.val), None, None, None, None>>))

\* The arms of FrameBody::parse for an unprotected frame: the body parser the
\* (type, subtype) pair selects, wrapped in its FrameBody variant.
body_dispatch(fc, i) ==
    CASE fc.typ = "Data" /\ fc.subtype \in {"Data", "Data_And_CFAck", "Data_And_CFPoll",
                "Data_And_CFAck_And_CFPoll", "QoSData", "QoSData_And_CFAck",
                "QoSData_And_CFPoll", "QoSData_And_CFAck_And_CFPoll"} ->
            Tagged("Data", DataFrameBody_parse(i))
      [] fc.typ = "Management" /\ fc.subtype = "Beacon" ->
            Tagged("Beacon", BeaconFrameBody_parse(i))
      [] fc.typ = "Management" /\ fc.subtype = "ProbeRequest" ->
            Tagged("ProbeRequest", ProbeRequestFrameBody_parse(i))
      [] fc.typ = "Management" /\ fc.subtype = "ProbeResponse" ->
            Tagged("ProbeResponse", ProbeResponseFrameBody_parse(i))
      [] fc.typ = "Management" /\ fc.subtype \in {"Deauthentication", "Disassociation"} ->
            Tagged("Deauthentication", DeauthenticationFrameBody_parse(i))
      [] fc.typ = "Management" /\ fc.subtype = "Authentication" ->
            Tagged("Authentication", AuthenticationFrameBody_parse(i))
      [] fc.typ = "Management" /\ fc.subtype = "AssociationRequest" ->
            Tagged("AssociationRequest", AssociationRequestFrameBody_parse(i))
      [] fc.typ = "Management" /\ fc.subtype = "ReassociationRequest" ->
            Tagged("ReassociationRequest", ReassociationRequestFrameBody_parse(i))
      [] fc.typ = "Management"
         /\ fc.subtype \in {"AssociationResponse", "ReassociationResponse"} ->
            Tagged("AssociationResponse", AssociationResponseFrameBody_parse(i))
      [] OTHER -> Ok(i, Variant("Empty", NoInner))

\* FrameBody::parse without its `if fc.flags.protected == 1` block.
FrameBody_parse_clear(fc, i) == body_dispatch(fc, i)

\* dot11::FrameBody::parse
FrameBody_parse(fc, i) ==
    IF fc.flags.protected = 1
    THEN IF Len(i) >= SEQ_CONTROL_SIZE
         THEN Bind(take(i, Len(i) - SEQ_CONTROL_SIZE), LAMBDA t :
              Ok(t.rest, Variant("Encrypted", t.rest)))
         ELSE Ok(i, Variant("Empty", NoInner))
    ELSE body_dispatch(fc, i)

\* dot11::Frame::parse
dot11_Frame_parse(i) ==
    context("802.11 MAC frame", i,
        Bind(FrameControl_parse(i), LAMBDA fc :
        Bind(number(fc.rest, "le_u16"), LAMBDA du :
        Bind(parse_addr(du.rest, fc.val), LAMBDA ad :
        Bind(FrameBody_parse(fc.val, ad.rest), LAMBDA fb :
        Bind(number(fb.rest, "le_u32"), LAMBDA fcs :
        Ok(fcs.rest,
           [fc |-> fc.val, duration |-> du.val,
            addr1 |-> ad.val[1], addr2 |-> ad.val[2],
            addr3 |-> ad.val[3],
            seq_control |-> ad.val[4],
            addr4 |-> ad.val[5],
            frame_body |-> fb.val, fcs |-> fcs.val])))))))

\* ------------------------------------------------------------------------
\* The decoders of the crate root (frame.rs, ipv4.rs, dot11.rs) that lib.rs
\* calls, and the two link-type dispatchers
\* ------------------------------------------------------------------------

\* ipv4::Packet::parse of the crate root: as the one of layer3, but with the
\* Protocol of ip.rs / ipv4.rs, which is None for a byte it does not know.
root_ipv4_Packet_parse(i) ==
    context("IPv4 frame", i,
        Bind(steps(i, <<B(<<4, 4>>), B(<<6, 2>>), P("be_u16"), P("be_u16"),
                        B(<<3, 13>>), P("u8"), P("ip_Protocol"), P("be_u16"),
                        P("Ipv4Addr"), P("Ipv4Addr")>>), LAMBDA h :
        Bind(l4_dispatch(h.val[7], h.rest), LAMBDA p :
        Ok(p.rest, [version |-> h.val[1][1], ihl |-> h.val[1][2],
                    dscp |-> h.val[2][1], ecn |-> h.val[2][2],
                    length |-> h.val[3], identification |-> h.val[4],
                    flags |-> h.val[5][1], fragment_offset |-> h.val[5][2],
                    ttl |-> h.val[6], protocol |-> h.val[7],
                    checksum |-> h.val[8], src |-> h.val[9], dst |-> h.val[10],
                    payload |-> p.val]))))

\* The `match ether_type` of frame::Frame::parse and of the crate root's
\* dot11 Frame::parse.
root_l3_dispatch(ether_type, i) ==
    CASE ether_type = "IPv4" -> map(root_ipv4_Packet_parse(i), PayloadIPv4)
      [] ether_type = "IPv6" -> map(ipv6_Packet_parse(i), PayloadIPv6)
      [] ether_type = "ARP" -> map(arp_Packet_parse(i), PayloadARP)
      [] OTHER -> Ok(i, Variant("Unknown", NoInner))

\* frame::Frame::parse
frame_Frame_parse(i) ==
    context("Ethernet frame", i,
        Bind(steps(i, <<P("MacAddr"), P("MacAddr"), P("EtherType")>>), LAMBDA h :
        Bind(root_l3_dispatch(h.val[3], h.rest), LAMBDA p :
        Ok(p.rest, [dst |-> h.val[1], src |-> h.val[2],
                    ether_type |-> h.val[3], payload |-> p.val]))))

\* FrameControl::parse of the crate root's dot11.rs: u2, u2, u4 and eight u1
root_FrameControl_parse(i) ==
    context("802.11 Frame Control", i,
        Bind(steps(i, <<B(<<2, 2, 4>>), B(<<1, 1, 1, 1, 1, 1, 1, 1>>)>>), LAMBDA h :
        Ok(h.rest, [version |-> h.val[1][1], typ |-> h.val[1][2], subtype |-> h.val[1][3],
                    to_ds |-> h.val[2][1], from_ds |-> h.val[2][2],
                    more_fragments |-> h.val[2][3], retry |-> h.val[2][4],
                    power_mgmt |-> h.val[2][5], more_data |-> h.val[2][6],
                    wep |-> h.val[2][7], order |-> h.val[2][8]])))

\* LLCHeader::parse
LLCHeader_parse(i) ==
    context("802.11 LLC Header", i,
        Bind(steps(i, <<P("u8"), P("u8"), P("u8")>>), LAMBDA h :
        Ok(h.rest, [dsap |-> h.val[1], ssap |-> h.val[2], ctrl |-> h.val[3]])))

\* SNAPHeader::parse: take(3) then EtherType::parse
SNAPHeader_parse(i) ==
    context("802.11 SNAP Header", i,
        Bind(take(i, 3), LAMBDA t :
        Bind(EtherType_parse(t.rest), LAMBDA e :
        Ok(e.rest, [ether_type |-> e.val]))))

\* The llc / snap / payload lines of the crate root's dot11 Frame::parse,
\* yielding <<llc, snap, payload>>.
root_dot11_data(has_data, i) ==
    IF has_data
    THEN Bind(LLCHeader_parse(i), LAMBDA l :
         Bind(SNAPHeader_parse(l.rest), LAMBDA s :
         Bind(root_l3_dispatch(s.val.ether_type, s.rest), LAMBDA p :
         Ok(p.rest, <<Some(l.val), Some(s.val), Some(p.val)>>))))
    ELSE Ok(i, <<None, None, None>>)

\* <dot11::Frame as DatalinkFrame>::parse of the crate root
root_dot11_Frame_parse(i) ==
    context("802.11 MAC frame", i,
        Bind(root_FrameControl_parse(i), LAMBDA fc :
        Bind(steps(fc.rest, <<P("be_u16"), P("MacAddr"), P("MacAddr"), P("MacAddr"),
                              P("MacAddr"), P("be_u16")>>), LAMBDA h :
        Bind(root_dot11_data(fc.val.typ = 2, h.rest), LAMBDA d :
        Bind(number(d.rest, "be_u16"), LAMBDA crc :
        Ok(crc.rest, [fc |-> fc.val, duration |-> h.val[1],
                      addr1 |-> h.val[2], addr2 |-> h.val[3], addr3 |-> h.val[4],
                      addr4 |-> h.val[5], seq_control |-> h.val[6],
                      llc |-> d.val[1], snap |-> d.val[2], payload |-> d.val[3],
                      crc |-> crc.val]))))))

\* What a dispatcher is left with when `if let Ok(..) = parse(..)` does not
\* match: the packet is passed over and the loop goes on.
Skipped == [tag |-> "Skipped"]

\* `if let Ok((_, frame)) = r { <use frame> }`
if_let_Ok(r) == IF r.tag = "Err" THEN Skipped ELSE r

\* `if let Ok((remaining, _)) = RadioTapHeader::parse(data) { dot11(remaining) }`
after_RadioTap(r, Dot11(_)) == IF r.tag = "Ok" THEN if_let_Ok(Dot11(r.rest)) ELSE if_let_Ok(r)

\* The frame a dispatcher hands on, as the Frame enum of capture.rs
FrameEthernet(i) == Tagged("Ethernet", ethernet_Frame_parse(i))

FrameDot11(i) == Tagged("Dot11", dot11_Frame_parse(i))

\* Capture::capture_packets (bin/netparser): the `match link_type`
capture_packets(n, data) ==
    CASE n = 1 -> if_let_Ok(FrameEthernet(data))
      [] n = 105 -> if_let_Ok(FrameDot11(data))
      [] n = 127 -> after_RadioTap(RadioTapHeader_parse(data), FrameDot11)
      [] OTHER -> Panic("not implemented: Unsupported interface")

\* lib.rs run: the `match link_type` on one captured packet
run(n, data) ==
    CASE n = 1 -> if_let_Ok(frame_Frame_parse(data))
      [] n \in {105, 119, 127, 163} ->
            after_RadioTap(RadioTapHeader_parse(data), root_dot11_Frame_parse)
      [] OTHER -> Panic("Unsupported interface")

\* ------------------------------------------------------------------------
\* Narrow integers (core/ux.rs): a value of type u<w> is the stored
\* primitive $name(self.0), held here as a natural below 2^Container(w)
\* ------------------------------------------------------------------------

\* The primitive type behind define_unsigned!(.., $bits, $type): its width
Container(w) == IF w < 8 THEN 8 ELSE IF w < 16 THEN 16 ELSE 32

\* `&`, `|` and `^` of two primitives, bit by bit
RECURSIVE BitOp(_, _, _)
BitOp(f, a, b) ==
    IF a = 0 /\ b = 0 THEN 0
    ELSE 2 * BitOp(f, a \div 2, b \div 2)
         + (CASE f = "and" -> (a % 2) * (b % 2)
              [] f = "or" -> IF (a % 2) + (b % 2) > 0 THEN 1 ELSE 0
              [] OTHER -> ((a % 2) + (b % 2)) % 2)

\* $name::MAX = (1 << $bits) - 1
MAX(w) == Pow2(w) - 1

\* $name::MIN = 0
MIN(w) == 0

\* fn mask(self): self.0 & ((1 << $bits).overflowing_sub(1).0)
mask(w, v) == BitOp("and", v, Pow2(w) - 1)

\* wrapping_add that leaves the carry out of the width in place.
wrapping_add_unmasked(w, a, b) == (a + b) % Pow2(Container(w))

\* $name(self.0.wrapping_add(rhs.0)).mask()
wrapping_add(w, a, b) == mask(w, (a + b) % Pow2(Container(w)))

\* $name(self.0.wrapping_sub(rhs.0)).mask()
wrapping_sub(w, a, b) ==
    mask(w, (a + Pow2(Container(w)) - b) % Pow2(Container(w)))

\* $name(self.mask().0.shr(rhs))
shr(w, a, rhs) == mask(w, a) \div Pow2(rhs)

\* $name(self.mask().0.shl(rhs)): the shift is the primitive's, so bits leave
\* only at the top of the primitive
shl(w, a, rhs) == (mask(w, a) * Pow2(rhs)) % Pow2(Container(w))

\* $name(self.mask().0.bitor(rhs.mask().0))
bitor(w, a, b) == BitOp("or", mask(w, a), mask(w, b))

\* $name(self.mask().0.bitxor(rhs.mask().0))
bitxor(w, a, b) == BitOp("xor", mask(w, a), mask(w, b))

\* $name(self.mask().0.bitand(rhs.mask().0))
bitand(w, a, b) == BitOp("and", mask(w, a), mask(w, b))

\* $name(self.mask().0.not()): the complement is the primitive's
not(w, a) == Pow2(Container(w)) - 1 - mask(w, a)

\* impl PartialEq: self.mask().0 == other.mask().0
eq(w, a, b) == mask(w, a) = mask(w, b)

\* ------------------------------------------------------------------------
\* Input buffers
\* ------------------------------------------------------------------------

\* Bytes of payload placed after a layer-4 header.
MaxTail == 2

\* Length of the data of a TCP option.
MaxOptLen == 2

\* Bytes of an 802.11 body region beyond the four FCS bytes.
MaxBody == 3

\* n filler bytes that differ from position to position.
RECURSIVE Fill(_, _)
Fill(seed, n) == IF n = 0 THEN <<>> ELSE Append(Fill(seed, n - 1), (seed + 37 * n) % 256)

Prefixes(s) == {Prefix(s, n) : n \in 0..Len(s)}

AllPrefixes(S) == UNION {Prefixes(s) : s \in S}

\* TEST_FRAME of layer2/ethernet.rs: Ethernet, IPv4, UDP (mDNS).
TEST_FRAME ==
    <<1, 0, 94, 0, 0, 251, 88, 0, 227, 29, 30, 107, 8, 0, 69,
      0, 0, 61, 98, 184, 0, 0, 1, 17, 180, 17, 192, 168, 1, 67,
      224, 0, 0, 251, 20, 233, 20, 233, 0, 41, 174, 109, 0, 0, 0,
      0, 0, 1, 0, 0, 0, 0, 0, 0, 4, 95, 105, 112, 112, 4,
      95, 116, 99, 112, 5, 108, 111, 99, 97, 108, 0, 0, 12, 128, 1>>

\* A 20-byte TCP header with the given data offset.
TcpHeader(off) == Fill(3, 12) \o <<off * 16, 16>> \o Fill(5, 6)

\* What follows a TCP header: nothing, single-byte options, options with
\* data (complete and cut short), plain payload, and two whole 4-byte option
\* areas (three No-Ops and End of List; Maximum Segment Size, kind 2 len 4)
\* with payload behind them.
TcpTails ==
    {<<>>, <<0>>, <<1>>}
    \cup {<<2, n>> \o Fill(7, n) : n \in 0..MaxOptLen}
    \cup {<<2, n + 1>> \o Fill(7, n) : n \in 0..MaxOptLen}
    \cup {<<0>> \o Fill(9, n) : n \in 1..MaxTail}
    \cup {<<1, 1, 1, 0>> \o Fill(9, n) : n \in 0..MaxTail}
    \cup {<<2, 4, 5, 180>> \o Fill(9, n) : n \in 0..MaxTail}

TcpInputs == {TcpHeader(off) \o t : off \in {5, 6, 7}, t \in TcpTails}

UdpInputs == {Fill(11, 8 + n) : n \in 0..MaxTail}

IcmpInputs ==
    {<<t, c>> \o Fill(13, 6 + n) : t \in {0, 3, 5, 8, 11}, c \in {0, 1}, n \in 0..MaxTail}

\* Layer-4 byte strings placed behind an IP header: well-formed, cut short,
\* and empty.
L4Samples ==
    {TcpHeader(off) \o t : off \in {5, 6}, t \in {<<>>, <<0>>, <<2, 1>>, <<2, 1, 7>>}}
    \cup {Fill(3, 10), Fill(11, 8), Fill(11, 5), <<>>,
          <<8, 0>> \o Fill(13, 6), <<8, 0>> \o Fill(13, 3), <<3, 1>> \o Fill(13, 6)}

Ipv4Header(proto) == <<69, 0, 0, 40>> \o Fill(15, 4) \o <<64, proto>> \o Fill(17, 10)

Ipv6Header(next) == <<96, 0, 0, 0, 0, 20, next, 64>> \o Fill(19, 32)

IpProtocols == {0, 1, 6, 17, 47, 100}

Ipv4Inputs == {Ipv4Header(p) \o l4 : p \in IpProtocols, l4 \in L4Samples}

Ipv6Inputs == {Ipv6Header(p) \o l4 : p \in IpProtocols, l4 \in L4Samples}

\* IPv4 packets whose ihl announces options (6 and 15 words): four option
\* bytes and then a layer-4 header, or a layer-4 header at once.
Ipv4OptionInputs ==
    {<<64 + ihl>> \o Tail(Ipv4Header(p)) \o o \o l4 :
        ihl \in {6, 15}, p \in {1, 6, 17, 47}, o \in {<<>>, <<1, 1, 1, 0>>},
        l4 \in {Fill(11, 8), TcpHeader(5), <<8, 0>> \o Fill(13, 6)}}

ArpPacket(htype, op) ==
    <<0, htype, 8, 0, 6, 4, 0, op>> \o Fill(21, 6) \o Fill(23, 4) \o Fill(25, 6) \o Fill(27, 4)

ArpInputs == {ArpPacket(h, op) \o Fill(29, n) : h \in {1, 6, 99}, op \in {1, 2, 7}, n \in {0, 1}}

EthernetHeader(hi, lo) == Fill(31, 6) \o Fill(33, 6) \o <<hi, lo>>

EthernetInputs ==
    {EthernetHeader(8, 0) \o x : x \in Ipv4Inputs}
    \cup {EthernetHeader(134, 221) \o x : x \in Ipv6Inputs}
    \cup {EthernetHeader(8, 6) \o x : x \in ArpInputs \cup {Fill(21, 9)}}
    \cup {EthernetHeader(8, 6) \o Ipv4Header(6), EthernetHeader(8, 0) \o ArpPacket(1, 1),
          EthernetHeader(18, 52) \o Fill(35, 3), EthernetHeader(0, 8) \o Ipv4Header(17)}
    \cup Prefixes(TEST_FRAME)
    \cup {SubSeq(TEST_FRAME, Len(TEST_FRAME) - 3, Len(TEST_FRAME) - 1)}

WiredInputs ==
    AllPrefixes(TcpInputs \cup UdpInputs \cup IcmpInputs)
    \cup Ipv4Inputs \cup Ipv4OptionInputs \cup Prefixes(Ipv4Header(6)) \cup Ipv6Inputs \cup Prefixes(Ipv6Header(17))
    \cup AllPrefixes({ArpPacket(1, 1)}) \cup ArpInputs \cup EthernetInputs

\* Information elements: one well-formed sample of each id the decoder
\* knows, an unknown id, and the malformed ones (text that is not UTF-8, a
\* len below the fixed part of the element, a len beyond the input).
ElementSamples ==
    {<<0, 3, 97, 98, 99>>, <<0, 2, 255, 254>>, <<0, 0>>,
     <<1, 2, 130, 4>>, <<1, 0>>, <<1, 4, 130, 132, 139, 150>>,
     <<2, 5, 1, 0, 2, 3, 4>>, <<3, 1, 6>>, <<3, 2, 6, 7>>, <<3, 0, 6>>,
     <<5, 4, 0, 1, 0, 0>>, <<5, 2, 0, 1, 0>>,
     <<6, 2, 0, 0>>,
     <<7, 6, 85, 83, 32, 1, 11, 30>>, <<7, 6, 255, 255, 32, 1, 11, 30>>,
     <<7, 2, 85, 83, 32>>, <<7, 5, 85, 83, 32, 1, 11>>,
     <<10, 2, 0, 1>>,
     <<16, 3, 97, 98, 99>>, <<16, 1, 128>>,
     <<32, 1, 3>>, <<35, 2, 1, 2>>, <<36, 2, 1, 2>>, <<37, 3, 1, 2, 3>>,
     <<40, 6, 1, 2, 3, 0, 4, 0>>,
     <<41, 9, 1, 2, 3, 4, 5, 6, 7, 36, 160>>, <<41, 3, 1, 2, 3, 4, 5, 6, 7>>,
     <<42, 1, 128>>,
     <<221, 2, 1, 2>>, <<221, 5, 1>>}

SsidElement == <<0, 3, 97, 98, 99>>

RatesElement == <<1, 2, 130, 4>>

\* Beacon / ProbeResponse bodies: timestamp, interval, capability, elements,
\* sometimes a stray byte, and the last four bytes.
BeaconBodies ==
    {Fill(37, 8) \o <<100, 0, 33, 4>> \o SsidElement \o e \o x \o Fill(39, 4) :
        e \in ElementSamples, x \in {<<>>, <<9>>}}

ProbeRequestBodies == {SsidElement \o RatesElement \o e \o Fill(41, 1) : e \in ElementSamples}

AuthenticationBodies ==
    {<<a, 0, 1, 0, st, 0>> \o e : a \in {0, 1, 5}, st \in {0, 9},
                                  e \in {<<16, 3, 97, 98, 99>>, <<16, 1, 128>>, <<16, 4, 97>>}}

AssociationBodies ==
    {<<33, 4, 10, 0>> \o SsidElement \o RatesElement,
     <<33, 4, 10, 0>> \o Fill(43, 6) \o SsidElement \o RatesElement,
     <<33, 4, 0, 0, 1, 192>> \o RatesElement,
     <<33, 4, 17, 0, 1, 192>> \o RatesElement \o Fill(45, 2)}

DeauthenticationBodies == {<<r, h>> \o Fill(47, n) : r \in {3, 23, 24}, h \in {0, 1}, n \in {0, 1}}

BodyInputs ==
    BeaconBodies \cup ProbeRequestBodies \cup AuthenticationBodies \cup AssociationBodies
    \cup DeauthenticationBodies
    \cup AllPrefixes({Fill(37, 8) \o <<100, 0, 33, 4>> \o SsidElement \o Fill(39, 4)})
    \cup AllPrefixes(AssociationBodies)

ElementInputs == AllPrefixes(ElementSamples)

\* A RadioTap header announcing it_len, on a buffer of n bytes in all.
RadioTapBuffer(it_len, n) == <<0, 0, it_len % 256, it_len \div 256>> \o Fill(49, n - 4)

RadioTapInputs ==
    {RadioTapBuffer(l, n) : l \in {0, 4, 8, 10, 300}, n \in {8, 9, 10, 12}}
    \cup Prefixes(RadioTapBuffer(8, 8))

\* The two frame-control bytes: subtype, type, version, then the flags of
\* which protected, from_ds and to_ds are set here.
FrameControlBytes(typ, st, protected, from_ds, to_ds) ==
    <<st * 16 + typ * 4, protected * 64 + from_ds * 2 + to_ds>>

\* Frame control, duration and `addr` bytes of addresses and sequence control.
Dot11Header(typ, st, protected, from_ds, to_ds, addr) ==
    FrameControlBytes(typ, st, protected, from_ds, to_ds) \o Fill(51, 2 + addr)

\* Every type and subtype, clear and protected, over a short and a long body
\* region behind headers of each length the decoder reads.
Dot11Sweep ==
    {Dot11Header(typ, st, p, 0, 0, a) \o Fill(53, n) :
        typ \in 0..3, st \in 0..15, p \in {0, 1}, a \in {6, 12, 20}, n \in {4, 4 + MaxBody}}

\* Data frames under each to_ds / from_ds combination and every body length.
Dot11Data ==
    {Dot11Header(2, st, p, f, t, IF f = 1 /\ t = 1 THEN 26 ELSE 20) \o Fill(55, n) :
        st \in {0, 4, 8}, p \in {0, 1}, f \in {0, 1}, t \in {0, 1}, n \in 0..(4 + MaxBody)}

\* Management frames carrying the bodies above.
Dot11Management ==
    {Dot11Header(0, st, p, 0, 0, 20) \o b : st \in {5, 8}, p \in {0, 1}, b \in BeaconBodies}
    \cup {Dot11Header(0, 4, 0, 0, 0, 20) \o b \o Fill(57, 3) : b \in ProbeRequestBodies}
    \cup {Dot11Header(0, 11, p, 0, 0, 20) \o b \o Fill(57, 4) :
            p \in {0, 1}, b \in AuthenticationBodies}
    \cup {Dot11Header(0, st, 0, 0, 0, 20) \o b \o Fill(57, 4) :
            st \in 0..3, b \in AssociationBodies}
    \cup {Dot11Header(0, st, 0, 0, 0, 20) \o b \o Fill(57, 4) :
            st \in {10, 12}, b \in DeauthenticationBodies}

\* An 802.11 Data frame in the layout of the crate root's dot11.rs: frame
\* control with type 2, duration, four addresses, sequence control, LLC, SNAP
\* naming IPv4, an IPv4 packet carrying UDP, and two bytes of CRC.
RootDot11Data ==
    <<32, 0>> \o Fill(59, 28) \o <<170, 170, 3, 0, 0, 0, 8, 0>>
    \o Ipv4Header(17) \o Fill(11, 8) \o Fill(61, 2)

\* 802.11 frames offered to the dispatchers bare and behind a RadioTap header.
Dot11Samples ==
    {Dot11Header(2, 0, 0, 0, 0, 20) \o Fill(55, 7),
     Dot11Header(2, 0, 1, 1, 1, 26) \o Fill(55, 6),
     Dot11Header(1, 11, 0, 0, 0, 12) \o Fill(55, 4),
     Dot11Header(0, 12, 0, 0, 0, 20) \o <<3, 0>> \o Fill(57, 4),
     Dot11Header(0, 12, 0, 0, 0, 20) \o Fill(57, 8),
     Dot11Header(2, 0, 0, 0, 0, 20),
     RootDot11Data}

RadioTapDot11Inputs ==
    Dot11Samples \cup {RadioTapBuffer(l, l) \o f : l \in {8, 10}, f \in Dot11Samples}

\* Two-byte sequence-control fields.
SeqControlInputs == {<<a, b>> : a \in {0, 1, 15, 16, 171, 255}, b \in {0, 1, 205, 255}}

\* Frame-control fields: every first byte with no flag set, and every
\* (type, subtype) pair of version 0 with every flag set.
FrameControlInputs ==
    {<<b, 0>> : b \in 0..255} \cup {<<4 * p, 255>> : p \in 0..63}

WirelessInputs ==
    ElementInputs \cup BodyInputs \cup RadioTapInputs \cup RadioTapDot11Inputs
    \cup Dot11Sweep \cup Dot11Data \cup Dot11Management
    \cup Prefixes(Dot11Header(2, 0, 0, 0, 0, 20) \o Fill(55, 6))
    \cup Prefixes(Dot11Header(1, 11, 0, 0, 0, 12) \o Fill(55, 4))
    \cup SeqControlInputs \cup FrameControlInputs

Inputs == WiredInputs \cup WirelessInputs

\* ------------------------------------------------------------------------
\* The state machine: a buffer arrives and one decode entry point is called
\* on it.  `overflow_checks` is the build profile (debug or release), which
\* decides what an integer underflow does.
\* ------------------------------------------------------------------------

NoResult == [tag |-> "None"]

\* No narrow integer has been built.
NoUx == [w |-> 0, raw |-> 0, op |-> "none", x |-> 0, y |-> 0]

\* The terminal interface of bin/netparser has not been started.
NoTable == [status |-> "none"]

NoUi == [status |-> "none"]

Init ==
    /\ buf \in Inputs
    /\ overflow_checks \in BOOLEAN
    /\ decoder = "none"
    /\ result = NoResult
    /\ link_type = None
    /\ ux = NoUx
    /\ table = NoTable
    /\ ui = NoUi

\* One call of an entry point on the buffer.
Call(name, r) ==
    /\ decoder = "none"
    /\ decoder' = name
    /\ result' = r
    /\ UNCHANGED <<buf, overflow_checks, link_type, ux, table, ui>>

ParseEthernet == Call("Ethernet", ethernet_Frame_parse(buf))

ParseARP == Call("ARP", arp_Packet_parse(buf))

ParseIPv4 == Call("IPv4", ipv4_Packet_parse(buf))

ParseIPv6 == Call("IPv6", ipv6_Packet_parse(buf))

ParseTCP == Call("TCP", tcp_Packet_parse(buf))

ParseUDP == Call("UDP", udp_Datagram_parse(buf))

ParseICMP == Call("ICMP", icmp_Packet_parse(buf))

ParseRadioTap == Call("RadioTap", RadioTapHeader_parse(buf))

ParseDot11 == Call("Dot11", dot11_Frame_parse(buf))

ParseElement == Call("Element", Element_parse(buf))

ParseBeacon == Call("Beacon", BeaconFrameBody_parse(buf))

ParseProbeRequest == Call("ProbeRequest", ProbeRequestFrameBody_parse(buf))

ParseProbeResponse == Call("ProbeResponse", ProbeResponseFrameBody_parse(buf))

ParseAssociationRequest == Call("AssociationRequest", AssociationRequestFrameBody_parse(buf))

ParseReassociationRequest ==
    Call("ReassociationRequest", ReassociationRequestFrameBody_parse(buf))

ParseAssociationResponse == Call("AssociationResponse", AssociationResponseFrameBody_parse(buf))

ParseAuthentication == Call("Authentication", AuthenticationFrameBody_parse(buf))

ParseDeauthentication == Call("Deauthentication", DeauthenticationFrameBody_parse(buf))

ParseFrameControl == Call("FrameControl", FrameControl_parse(buf))

ParseSeqControl == Call("SeqControl", SeqControl_parse(buf))

\* The link types a capture handle reports (pcap's get_datalink): the ones
\* the dispatchers name and one that neither names (9, PPP).
LinkTypes == {1, 105, 119, 127, 163, 9}

\* One packet through a link-type dispatcher, on a capture of link type n.
Dispatch(name, n, r) ==
    /\ decoder = "none"
    /\ decoder' = name
    /\ link_type' = Some(n)
    /\ result' = r
    /\ UNCHANGED <<buf, overflow_checks, ux, table, ui>>

CapturePackets == \E n \in LinkTypes : Dispatch("capture_packets", n, capture_packets(n, buf))

Run == \E n \in LinkTypes : Dispatch("run", n, run(n, buf))

Next ==
    \/ ParseEthernet
    \/ ParseARP
    \/ ParseIPv4
    \/ ParseIPv6
    \/ ParseTCP
    \/ ParseUDP
    \/ ParseICMP
    \/ ParseRadioTap
    \/ ParseDot11
    \/ ParseElement
    \/ ParseBeacon
    \/ ParseProbeRequest
    \/ ParseProbeResponse
    \/ ParseAssociationRequest
    \/ ParseReassociationRequest
    \/ ParseAssociationResponse
    \/ ParseAuthentication
    \/ ParseDeauthentication
    \/ ParseFrameControl
    \/ ParseSeqControl
    \/ CapturePackets
    \/ Run

Spec == Init /\ [][Next]_vars

\* ------------------------------------------------------------------------
\* Narrow-integer values under sequences of operations: ux is one value of
\* type u<w>, with the operation that made it and that operation's operands
\* ------------------------------------------------------------------------

\* Widths of define_unsigned!: every u8-backed type and one u16-backed type
UxWidths == {1, 2, 3, 4, 5, 6, 7, 9}

\* Arguments handed to the constructor: the ends of the range, 1, and the
\* first value past the range
UxArgs(w) == {0, 1, MAX(w), MAX(w) + 1}

\* assert!(value <= $name::MAX.0 && value >= $name::MIN.0)
new_accepts(w, value) == value <= MAX(w) /\ value >= MIN(w)

\* Values of the type built by new, MIN and MAX
UxBuilt(w) == {v \in UxArgs(w) : new_accepts(w, v)} \cup {MIN(w), MAX(w)}

\* Right-hand operands: built values and their complements
UxOperands(w) == UxBuilt(w) \cup {not(w, v) : v \in UxBuilt(w)}

\* Shift amounts below the width of the primitive
UxShifts(w) == {1, Container(w) - 1}

\* No buffer is decoded, and none of these operations consults the build's
\* overflow checks (the debug_assert! of Add and Sub is not among them).
UxInit ==
    /\ buf = <<>>
    /\ overflow_checks = FALSE
    /\ decoder = "none"
    /\ result = NoResult
    /\ link_type = None
    /\ table = NoTable
    /\ ui = NoUi
    /\ \E w \in UxWidths : \E v \in UxBuilt(w) :
           ux = [w |-> w, raw |-> v, op |-> "new", x |-> v, y |-> 0]

\* One operation on the value: the result replaces it.
UxStep(op, y, r) ==
    /\ ux.op # "none"
    /\ ux' = [w |-> ux.w, raw |-> r, op |-> op, x |-> ux.raw, y |-> y]
    /\ UNCHANGED <<buf, overflow_checks, decoder, result, link_type, table, ui>>

UxAnd == \E y \in UxOperands(ux.w) : UxStep("and", y, bitand(ux.w, ux.raw, y))

UxOr == \E y \in UxOperands(ux.w) : UxStep("or", y, bitor(ux.w, ux.raw, y))

UxXor == \E y \in UxOperands(ux.w) : UxStep("xor", y, bitxor(ux.w, ux.raw, y))

UxNot == UxStep("not", 0, not(ux.w, ux.raw))

UxShl == \E k \in UxShifts(ux.w) : UxStep("shl", k, shl(ux.w, ux.raw, k))

UxShr == \E k \in UxShifts(ux.w) : UxStep("shr", k, shr(ux.w, ux.raw, k))

UxWrappingAdd ==
    \E y \in UxOperands(ux.w) : UxStep("wrapping_add", y, wrapping_add(ux.w, ux.raw, y))

UxWrappingSub ==
    \E y \in UxOperands(ux.w) : UxStep("wrapping_sub", y, wrapping_sub(ux.w, ux.raw, y))

UxNext ==
    \/ UxAnd
    \/ UxOr
    \/ UxXor
    \/ UxNot
    \/ UxShl
    \/ UxShr
    \/ UxWrappingAdd
    \/ UxWrappingSub

UxSpec == UxInit /\ [][UxNext]_vars

TypeOK == result.tag \in {"None", "Ok", "Err", "Panic", "Skipped"}

\* ------------------------------------------------------------------------
\* Properties
\* ------------------------------------------------------------------------

\* C1: whenever a decoder succeeds, the remaining slice it returns is a suffix
\* of the buffer: the consumed prefix followed by the remainder is the buffer,
\* so consumed length plus remaining length is the buffer's length.
C1_RemainderIsSuffix ==
    result.tag = "Ok" =>
        /\ Len(result.rest) <= Len(buf)
        /\ Prefix(buf, Len(buf) - Len(result.rest)) \o result.rest = buf

\* A Beacon body with a stray byte after its elements decodes and leaves
\* exactly its last four bytes.
C1_Witness ==
    /\ decoder = "Beacon"
    /\ result.tag = "Ok"
    /\ Len(buf) = 27
    /\ result.rest = Drop(buf, 23)
    /\ Len(result.val.dynamic_fields) = 2

\* The EtherType the two bytes at offset 12 name.
EtherTypeAt12(b) ==
    CASE b[13] = 8 /\ b[14] = 0 -> "IPv4"
      [] b[13] = 134 /\ b[14] = 221 -> "IPv6"
      [] b[13] = 8 /\ b[14] = 6 -> "ARP"
      [] OTHER -> "None"

\* C2: a decoded Ethernet frame has dst = bytes 0..6, src = bytes 6..12,
\* ether_type = the big-endian u16 at bytes 12..14 mapped to IPv4 (0x0800),
\* IPv6 (0x86DD), ARP (0x0806) or None, and its payload is the IPv4 / IPv6 /
\* ARP variant exactly when ether_type is IPv4 / IPv6 / ARP.
C2_EthernetFields ==
    decoder = "Ethernet" /\ result.tag = "Ok" =>
        /\ Len(buf) >= 14
        /\ result.val.dst = SubSeq(buf, 1, 6)
        /\ result.val.src = SubSeq(buf, 7, 12)
        /\ result.val.ether_type = EtherTypeAt12(buf)
        /\ \A t \in {"IPv4", "IPv6", "ARP"} :
              result.val.payload.variant = t <=> result.val.ether_type = t

\* An Ethernet frame carrying an IPv6 packet is decoded.
C2_Witness ==
    /\ decoder = "Ethernet"
    /\ result.tag = "Ok"
    /\ result.val.ether_type = "IPv6"
    /\ result.val.payload.variant = "IPv6"

\* C3: a decoded IPv4 packet has payload TCP, UDP or ICMP exactly when the
\* protocol byte at offset 9 is 6, 17 or 1, and Unknown for any other value.
C3_IPv4Payload ==
    decoder = "IPv4" /\ result.tag = "Ok" =>
        /\ Len(buf) >= 20
        /\ result.val.payload.variant =
              (CASE buf[10] = 6 -> "TCP"
                 [] buf[10] = 17 -> "UDP"
                 [] buf[10] = 1 -> "ICMP"
                 [] OTHER -> "Unknown")

\* An IPv4 packet with protocol 17 and a whole UDP header is decoded.
C3_Witness ==
    /\ decoder = "IPv4"
    /\ result.tag = "Ok"
    /\ buf[10] = 17
    /\ result.val.payload.variant = "UDP"

\* The layer-4 decoder a protocol byte names, run on the bytes after the
\* IP header.
L4Run(proto, bytes) ==
    CASE proto = 6 -> tcp_Packet_parse(bytes)
      [] proto = 17 -> udp_Datagram_parse(bytes)
      [] OTHER -> icmp_Packet_parse(bytes)

\* The failure an enclosing decoder returns for an inner failure: the inner
\* chain followed by the enclosing context labels, innermost first.
Surfaced(inner, outer) == Err(inner.errors \o outer)

\* Failure of the layer-4 decoder behind an IP header at offset `at` of the
\* buffer, whose protocol byte is at `at + p` and which is `hl` bytes long.
L4Fails(at, p, hl) ==
    /\ Len(buf) >= at + hl
    /\ buf[at + p + 1] \in {1, 6, 17}
    /\ L4Run(buf[at + p + 1], Drop(buf, at + hl)).tag = "Err"

\* C4: when an IPv4 or IPv6 header names TCP, UDP or ICMP and that decoder
\* fails on the bytes after the header, the IP decode and the enclosing
\* Ethernet decode return that failure (the layer-4 chain under their own
\* context labels), never a success with payload Unknown.
C4_L4FailureSurfaces ==
    /\ decoder = "IPv4" /\ L4Fails(0, 9, 20) =>
          result = Surfaced(L4Run(buf[10], Drop(buf, 20)),
                            <<[input |-> buf, kind |-> Ctx("IPv4 frame")]>>)
    /\ decoder = "IPv6" /\ L4Fails(0, 6, 40) =>
          result = Surfaced(L4Run(buf[7], Drop(buf, 40)),
                            <<[input |-> buf, kind |-> Ctx("IPv6 frame")]>>)
    /\ decoder = "Ethernet" /\ Len(buf) >= 14 /\ EtherTypeAt12(buf) = "IPv4"
       /\ L4Fails(14, 9, 20) =>
          result = Surfaced(L4Run(buf[24], Drop(buf, 34)),
                            <<[input |-> Drop(buf, 14), kind |-> Ctx("IPv4 frame")],
                              [input |-> buf, kind |-> Ctx("Ethernet frame")]>>)
    /\ decoder = "Ethernet" /\ Len(buf) >= 14 /\ EtherTypeAt12(buf) = "IPv6"
       /\ L4Fails(14, 6, 40) =>
          result = Surfaced(L4Run(buf[21], Drop(buf, 54)),
                            <<[input |-> Drop(buf, 14), kind |-> Ctx("IPv6 frame")],
                              [input |-> buf, kind |-> Ctx("Ethernet frame")]>>)

\* An Ethernet frame whose IPv6 header names TCP over a truncated TCP header
\* fails.
C4_Witness ==
    /\ decoder = "Ethernet"
    /\ Len(buf) >= 14
    /\ EtherTypeAt12(buf) = "IPv6"
    /\ L4Fails(14, 6, 40)
    /\ buf[21] = 6
    /\ result.tag = "Err"

\* Where the Ethernet header decoder stops on a buffer of n < 14 bytes, and
\* the label of the field it was reading.
ShortAt(n) == IF n < 6 THEN 0 ELSE IF n < 12 THEN 6 ELSE 12

ShortLabel(n) == IF n < 12 THEN "MAC address" ELSE "EtherType"

\* C5: on a buffer shorter than the 14-byte Ethernet header Frame::parse
\* fails, and its error chain has the not-enough-input kind first (bottom),
\* the "Ethernet frame" label last (top), each entry with the input at which
\* its parser was entered.
C5_TruncatedEthernet ==
    decoder = "Ethernet" /\ Len(buf) < 14 =>
        /\ result.tag = "Err"
        /\ result.errors =
              <<[input |-> Drop(buf, ShortAt(Len(buf))), kind |-> Nom("Eof")],
                [input |-> Drop(buf, ShortAt(Len(buf))), kind |-> Ctx(ShortLabel(Len(buf)))],
                [input |-> buf, kind |-> Ctx("Ethernet frame")]>>

\* The three bytes of the repository's own truncated-frame test fail.
C5_Witness ==
    /\ decoder = "Ethernet"
    /\ buf = <<0, 12, 128>>
    /\ result.tag = "Err"
    /\ result.errors[Len(result.errors)].kind = Ctx("Ethernet frame")

\* C6: every decode entry point returns a success or a ParseError for every
\* buffer; no input aborts the call.  (Refuted: see C6_Abort_* below.)
C6_NoAbort == decoder # "none" => result.tag \in {"Ok", "Err"}

\* The aborts the claim names, each reached by the model:
\* a TCP header with data_offset > 5 and nothing behind it,
C6_Abort_TcpOptions ==
    decoder = "TCP" /\ Len(buf) = 20 /\ buf[13] \div 16 > 5 /\ result.tag = "Panic"

\* a Country element whose three text bytes are not UTF-8, in either build,
C6_Abort_CountryUtf8 ==
    decoder = "Element" /\ buf = <<7, 6, 255, 255, 32, 1, 11, 30>>
    /\ ~overflow_checks /\ result.tag = "Panic"

\* and a Beacon body with fewer than 4 bytes after the capability field,
\* when the build checks overflow.
C6_Abort_BeaconShort ==
    decoder = "Beacon" /\ Len(buf) = 14 /\ overflow_checks /\ result.tag = "Panic"

\* The fields of the two frame-control bytes of an 802.11 buffer.
TypeBits(b) == (b[1] \div 4) % 4

SubtypeBits(b) == b[1] \div 16

ProtectedBit(b) == (b[2] \div 64) % 2

FromDsBit(b) == (b[2] \div 2) % 2

ToDsBit(b) == b[2] % 2

\* The address table of the 802.11 decoder: the tags of addr1, addr2, addr3,
\* whether sequence control is read, and the tag of addr4 ("" = absent).
AddressTable(b) ==
    CASE TypeBits(b) = 2 /\ ToDsBit(b) = 0 /\ FromDsBit(b) = 0 ->
            <<"DestinationAddress", "SourceAddress", "BSSID", "seq", "">>
      [] TypeBits(b) = 2 /\ ToDsBit(b) = 1 /\ FromDsBit(b) = 0 ->
            <<"BSSID", "SourceAddress", "DestinationAddress", "seq", "">>
      [] TypeBits(b) = 2 /\ ToDsBit(b) = 0 /\ FromDsBit(b) = 1 ->
            <<"DestinationAddress", "BSSID", "SourceAddress", "seq", "">>
      [] TypeBits(b) = 2 /\ ToDsBit(b) = 1 /\ FromDsBit(b) = 1 ->
            <<"ReceiverAddress", "TransmitterAddress", "DestinationAddress", "seq",
              "SourceAddress">>
      [] TypeBits(b) = 1 /\ SubtypeBits(b) = 11 ->
            <<"ReceiverAddress", "TransmitterAddress", "", "", "">>
      [] TypeBits(b) = 1 /\ SubtypeBits(b) = 10 ->
            <<"BSSID", "TransmitterAddress", "", "", "">>
      [] TypeBits(b) = 0 ->
            <<"DestinationAddress", "SourceAddress", "BSSID", "seq", "">>
      [] OTHER -> <<"ReceiverAddress", "", "", "", "">>

\* Offset of the body region: frame control, duration, and the addresses and
\* sequence control the table lists.
BodyAt(b) ==
    LET t == AddressTable(b)
    IN 4 + 6 + (IF t[2] = "" THEN 0 ELSE 6) + (IF t[3] = "" THEN 0 ELSE 6)
         + (IF t[4] = "" THEN 0 ELSE 2) + (IF t[5] = "" THEN 0 ELSE 6)

BodyRegion(b) == Drop(b, BodyAt(b))

\* C7: a decoded 802.11 frame whose protected bit is 1 has frame_body
\* Encrypted or Empty, whatever its type and subtype.
C7_ProtectedBody ==
    decoder = "Dot11" /\ result.tag = "Ok" /\ ProtectedBit(buf) = 1 =>
        result.val.frame_body.variant \in {"Encrypted", "Empty"}

\* A protected Beacon frame with a well-formed Beacon body is decoded.
C7_Witness ==
    /\ decoder = "Dot11"
    /\ result.tag = "Ok"
    /\ ProtectedBit(buf) = 1
    /\ TypeBits(buf) = 0
    /\ SubtypeBits(buf) = 8
    /\ BodyRegion(buf) \in BeaconBodies
    /\ result.val.frame_body.variant = "Encrypted"

\* C8: a decoded protected frame whose body region R has at least 4 bytes has
\* body Encrypted(blob) with blob = the first len(R) - 4 bytes of R.
\* (Refuted: the blob is built from what is left after those bytes.)
C8_EncryptedBlob ==
    decoder = "Dot11" /\ result.tag = "Ok" /\ ProtectedBit(buf) = 1
    /\ Len(BodyRegion(buf)) >= 4 =>
        result.val.frame_body =
            Variant("Encrypted", Prefix(BodyRegion(buf), Len(BodyRegion(buf)) - 4))

\* A protected Data frame with a 7-byte body region is decoded with the last
\* four bytes of the region as its blob.
C8_LastFourAsBlob ==
    /\ decoder = "Dot11"
    /\ result.tag = "Ok"
    /\ ProtectedBit(buf) = 1
    /\ TypeBits(buf) = 2
    /\ Len(BodyRegion(buf)) = 7
    /\ result.val.frame_body = Variant("Encrypted", Drop(BodyRegion(buf), 3))

\* The little-endian u32 of the final four bytes of a buffer, as <<hi, lo>>.
LastFourLe(b) == <<LeLimb(b, Len(b) - 1), LeLimb(b, Len(b) - 3)>>

\* The subtypes of type Data that carry a body: Data and QoS Data, alone or
\* with CF-Ack / CF-Poll.
DataCarrying(b) == TypeBits(b) = 2 /\ SubtypeBits(b) \in {0, 1, 2, 3, 8, 9, 10, 11}

\* C9, for the frames that carry a Data body: the fcs of a decoded 802.11
\* frame is the little-endian u32 of the final 4 bytes of the buffer.
\* (Refuted: the Data body consumes nothing, so fcs is read from the first 4
\* bytes of the body region.)
C9_FcsIsLastFour ==
    decoder = "Dot11" /\ result.tag = "Ok" /\ ProtectedBit(buf) = 0 /\ DataCarrying(buf) =>
        result.val.fcs = LastFourLe(buf)

\* An unprotected Data frame with a 7-byte body region is decoded with fcs
\* taken from the first four bytes of the region and three bytes left over.
C9_FcsFromBodyStart ==
    /\ decoder = "Dot11"
    /\ result.tag = "Ok"
    /\ ProtectedBit(buf) = 0
    /\ TypeBits(buf) = 2
    /\ SubtypeBits(buf) = 0
    /\ Len(BodyRegion(buf)) = 7
    /\ result.val.fcs = LastFourLe(Prefix(BodyRegion(buf), 4))
    /\ result.val.fcs # LastFourLe(buf)
    /\ Len(result.rest) = 3

\* An address field as the table expects it: absent, or the six bytes at
\* offset `at` under the tag.
Expected(tag, b, at) ==
    IF tag = "" THEN None ELSE Some(Dot11Addr(tag, SubSeq(b, at + 1, at + 6)))

\* C10: after frame control and duration the decoder reads and tags the
\* addresses by the table (Data by to_ds / from_ds, RTS, PSPoll, other Control
\* and Extension, Management), and addr2, addr3, seq_control and addr4 are
\* absent exactly where the table lists none.
C10_AddressTable ==
    decoder = "Dot11" /\ result.tag = "Ok" =>
        LET t == AddressTable(buf)
        IN /\ Some(result.val.addr1) = Expected(t[1], buf, 4)
           /\ result.val.addr2 = Expected(t[2], buf, 10)
           /\ result.val.addr3 = Expected(t[3], buf, 16)
           /\ (result.val.seq_control = None) <=> (t[4] = "")
           /\ result.val.addr4 = Expected(t[5], buf, 24)

\* A Data frame with to_ds = 1 and from_ds = 0 is decoded.
C10_Witness ==
    /\ decoder = "Dot11"
    /\ result.tag = "Ok"
    /\ TypeBits(buf) = 2
    /\ ToDsBit(buf) = 1
    /\ FromDsBit(buf) = 0
    /\ result.val.addr1.tag = "BSSID"
    /\ result.val.addr3 = Some(Dot11Addr("DestinationAddress", SubSeq(buf, 17, 22)))

\* What the link-type switch is said to do with link type n, given the
\* Ethernet and 802.11 decoders of the dispatcher.
ClaimedDispatch(n, Ethernet(_), Dot11(_)) ==
    CASE n = 1 -> if_let_Ok(Ethernet(buf))
      [] n = 105 -> if_let_Ok(Dot11(buf))
      [] OTHER -> after_RadioTap(RadioTapHeader_parse(buf), Dot11)

\* C11: link type 1 is decoded as an Ethernet frame, 105 as a bare 802.11
\* frame with no RadioTap header consumed first, and 127 or 163 as a RadioTap
\* header followed by an 802.11 frame decoded from the bytes after it.
\* (Refuted: capture_packets aborts on 163, run consumes a RadioTap header
\* on 105.)
C11_LinkTypeDispatch ==
    /\ decoder = "capture_packets" /\ link_type[2] \in {1, 105, 127, 163} =>
          result = ClaimedDispatch(link_type[2], FrameEthernet, FrameDot11)
    /\ decoder = "run" /\ link_type[2] \in {1, 105, 127, 163} =>
          result = ClaimedDispatch(link_type[2], frame_Frame_parse, root_dot11_Frame_parse)

\* capture_packets on link type 163 aborts on a buffer that holds a RadioTap
\* header and an 802.11 frame that decode.
C11_Capture163Aborts ==
    /\ decoder = "capture_packets"
    /\ link_type = Some(163)
    /\ after_RadioTap(RadioTapHeader_parse(buf), FrameDot11).tag = "Ok"
    /\ result.tag = "Panic"

\* run on link type 105 decodes the 802.11 frame from the bytes after a
\* RadioTap header of it_len > 0, not from the start of the buffer.
C11_Run105ConsumesRadioTap ==
    /\ decoder = "run"
    /\ link_type = Some(105)
    /\ RadioTapHeader_parse(buf).tag = "Ok"
    /\ RadioTapHeader_parse(buf).val.it_len > 0
    /\ result = if_let_Ok(root_dot11_Frame_parse(Drop(buf, RadioTapHeader_parse(buf).val.it_len)))
    /\ result.tag = "Ok"
    /\ result # if_let_Ok(root_dot11_Frame_parse(buf))

\* The error value the dispatch is said to return for link type n.
UnsupportedLinkType(n) == [tag |-> "Err", error |-> <<"UnsupportedLinkType", n>>]

\* C12: for every link type n other than 1, 105, 127 and 163 the dispatch
\* returns the error UnsupportedLinkType(n); it neither aborts nor decodes the
\* buffer.  (Refuted: both dispatchers abort, and run decodes link type 119.)
C12_UnsupportedLinkType ==
    decoder \in {"capture_packets", "run"} /\ link_type[2] \notin {1, 105, 127, 163} =>
        result = UnsupportedLinkType(link_type[2])

\* Both dispatchers abort on link type 9.
C12_UnsupportedAborts ==
    /\ decoder \in {"capture_packets", "run"}
    /\ link_type = Some(9)
    /\ result.tag = "Panic"


\* C13: for every width w and all values x, y of the type, x.wrapping_add(y)
\* is (raw(x) + raw(y)) mod 2^w and x.wrapping_sub(y) is
\* (raw(x) - raw(y)) mod 2^w.
C13_WrappingArithmetic ==
    /\ ux.op = "wrapping_add" => ux.raw = (ux.x + ux.y) % Pow2(ux.w)
    /\ ux.op = "wrapping_sub" => ux.raw = (ux.x - ux.y) % Pow2(ux.w)

\* A sum that leaves the width and a difference below zero, on operands that
\* carry bits above the width.
C13_WrappedPastWidth ==
    /\ ux.op \in {"wrapping_add", "wrapping_sub"}
    /\ ux.x > MAX(ux.w)
    /\ ux.y > MAX(ux.w)
    /\ \/ ux.op = "wrapping_add" /\ mask(ux.w, ux.x) + mask(ux.w, ux.y) > MAX(ux.w)
       \/ ux.op = "wrapping_sub" /\ mask(ux.w, ux.x) < mask(ux.w, ux.y)

\* C14: every value obtained from the constructor, MIN or MAX by any
\* sequence of AND, OR, XOR, NOT, SHL, SHR, wrapping_add and wrapping_sub is
\* stored masked to its width: x & (2^w - 1) = x.
C14_StoredValueMasked == ux.op # "none" => mask(ux.w, ux.raw) = ux.raw

\* The complement of a built value keeps the bits of the primitive above the
\* width, and still compares equal to the masked value.
C14_NotLeavesHighBits ==
    /\ ux.op = "not"
    /\ ux.x \in UxBuilt(ux.w)
    /\ ux.raw > MAX(ux.w)
    /\ eq(ux.w, ux.raw, mask(ux.w, ux.raw))

\* A left shift of a built value moves bits above the width.
C14_ShlLeavesHighBits ==
    /\ ux.op = "shl"
    /\ ux.x \in UxBuilt(ux.w)
    /\ ux.raw > MAX(ux.w)


\* An element whose decoding leaves a bits(...) section in mid-byte: ERPInfo
\* (id 42, three u1) with its byte present, or IBSS DFS (id 41) with at least
\* one channel tuple (one byte, then five u1) inside its window.
ReadsUnalignedSection(b) ==
    /\ Len(b) >= 2
    /\ \/ b[1] = 42 /\ Len(b) >= 3
       \/ b[1] = 41 /\ b[2] >= 9 /\ Len(b) >= 2 + b[2]

\* C15: a bits(f) section whose fields total a number of bits that is not a
\* multiple of 8 (the 3-bit ERPInfo, the 5-bit IBSS DFS channel map) fails
\* with an Unaligned error instead of succeeding and discarding the rest of
\* the byte.
C15_UnalignedSectionFails ==
    decoder = "Element" /\ ReadsUnalignedSection(buf) => result.tag = "Err"

\* ERPInfo succeeds on three bits and the cursor is past the whole byte.
C15_ERPInfoDiscardsBits ==
    /\ decoder = "Element"
    /\ ReadsUnalignedSection(buf)
    /\ buf[1] = 42
    /\ result.tag = "Ok"
    /\ result.val.variant = "ERPInfo"
    /\ Len(result.rest) = Len(buf) - 3

\* An IBSS DFS element succeeds with a channel map read from five bits.
C15_ChannelMapDiscardsBits ==
    /\ decoder = "Element"
    /\ ReadsUnalignedSection(buf)
    /\ buf[1] = 41
    /\ result.tag = "Ok"
    /\ result.val.variant = "IBSS_DFS"


\* The bytes of the segment from byte offset n on.
SegmentFrom(n) == Drop(buf, n)

\* C16: a successfully decoded TCP segment with data_offset d > 5 has its
\* payload start at byte offset 4 * d ((d - 5) * 4 bytes of option area are
\* consumed after the 20-byte header); with d <= 5 options is Empty and the
\* payload starts at offset 20.
C16_OptionAreaConsumed ==
    decoder = "TCP" /\ result.tag = "Ok" =>
        IF result.val.offset > 5
        THEN /\ Len(buf) >= 4 * result.val.offset
             /\ result.val.payload = SegmentFrom(4 * result.val.offset)
        ELSE /\ result.val.options.variant = "Empty"
             /\ result.val.payload = SegmentFrom(20)

\* A segment with data_offset 6 and a whole option area of three No-Ops and
\* End of List: one byte is consumed and the payload starts at offset 21.
C16_PayloadStartsInOptionArea ==
    /\ decoder = "TCP"
    /\ result.tag = "Ok"
    /\ result.val.offset = 6
    /\ Len(buf) > 24
    /\ SubSeq(buf, 21, 24) = <<1, 1, 1, 0>>
    /\ result.val.options = Variant("NoData", [kind |-> 1])
    /\ result.val.payload = SegmentFrom(21)

\* With data_offset <= 5 the options are Empty and the payload starts at 20.
C16_NoOptions ==
    /\ decoder = "TCP"
    /\ result.tag = "Ok"
    /\ result.val.offset = 5
    /\ Len(buf) > 20
    /\ result.val.options.variant = "Empty"
    /\ result.val.payload = SegmentFrom(20)

\* C17: with data_offset > 5, a first option byte of 0x00 or 0x01 gives
\* NoData{kind} with that byte; any other gives Data{kind, len, bytes} with
\* kind the first option byte, len the second and bytes exactly the len - 2
\* bytes that follow those two.
C17_OptionShape ==
    decoder = "TCP" /\ result.tag = "Ok" /\ result.val.offset > 5 =>
        IF buf[21] \in {0, 1}
        THEN result.val.options = Variant("NoData", [kind |-> buf[21]])
        ELSE /\ result.val.options.variant = "Data"
             /\ result.val.options.inner.kind = buf[21]
             /\ result.val.options.inner.len = buf[22]
             /\ buf[22] >= 2
             /\ result.val.options.inner.data = SubSeq(buf, 23, 20 + buf[22])

\* A Maximum Segment Size option (kind 2, len 4, two bytes of value): the
\* option's data is the four bytes after kind and len, two of them payload.
C17_DataTakesLenBytes ==
    /\ decoder = "TCP"
    /\ result.tag = "Ok"
    /\ result.val.offset > 5
    /\ Len(buf) >= 26
    /\ SubSeq(buf, 21, 24) = <<2, 4, 5, 180>>
    /\ result.val.options.variant = "Data"
    /\ result.val.options.inner.len = 4
    /\ result.val.options.inner.data = SubSeq(buf, 23, 26)
    /\ result.val.payload = SegmentFrom(26)

\* A first option byte of 0x00 or 0x01 gives NoData with that kind.
C17_NoDataKind ==
    /\ decoder = "TCP"
    /\ result.tag = "Ok"
    /\ result.val.offset > 5
    /\ buf[21] \in {0, 1}
    /\ result.val.options = Variant("NoData", [kind |-> buf[21]])


\* The big-endian u16 at byte offset n of the buffer.
BeU16At(n) == buf[n + 1] * 256 + buf[n + 2]

\* C18: on at least 8 bytes the UDP decoder succeeds with src_port,
\* dst_port, len and checksum the big-endian u16 at offsets 0, 2, 4 and 6 and
\* payload all bytes after offset 8, and the returned remainder is empty; on
\* fewer than 8 bytes it fails.
C18_UdpDecode ==
    decoder = "UDP" =>
        IF Len(buf) >= 8
        THEN /\ result.tag = "Ok"
             /\ result.val.src_port = BeU16At(0)
             /\ result.val.dst_port = BeU16At(2)
             /\ result.val.len = BeU16At(4)
             /\ result.val.checksum = BeU16At(6)
             /\ result.val.payload = Drop(buf, 8)
             /\ result.rest = <<>>
        ELSE result.tag = "Err"

\* A datagram with payload: the fields and the payload are as stated, and the
\* returned remainder is the payload again.
C18_RemainderIsPayload ==
    /\ decoder = "UDP"
    /\ Len(buf) > 8
    /\ result.tag = "Ok"
    /\ result.val.src_port = BeU16At(0)
    /\ result.val.payload = Drop(buf, 8)
    /\ result.rest = Drop(buf, 8)
    /\ result.rest # <<>>

\* The little-endian u16 at byte offset 2 of the buffer.
ItLenOf(b) == b[3] + 256 * b[4]

\* C19: every successful RadioTap decode has it_len the little-endian u16 at
\* offset 2 and returns the remainder input[it_len..], whatever lies between
\* the 8-byte fixed header and it_len; the decode fails when the input is
\* shorter than it_len.
C19_ItLenAuthoritative ==
    decoder = "RadioTap" =>
        /\ result.tag \in {"Ok", "Err"}
        /\ result.tag = "Ok" =>
               /\ result.val.it_len = ItLenOf(buf)
               /\ Len(buf) >= ItLenOf(buf)
               /\ result.rest = Drop(buf, ItLenOf(buf))
        /\ Len(buf) >= 4 /\ Len(buf) < ItLenOf(buf) => result.tag = "Err"

\* A header announcing 10 bytes on a 12-byte buffer: the two bytes behind the
\* fixed header are skipped and two remain.
C19_ExtensionSkipped ==
    /\ decoder = "RadioTap"
    /\ result.tag = "Ok"
    /\ result.val.it_len > 8
    /\ Len(buf) > result.val.it_len
    /\ result.rest = Drop(buf, result.val.it_len)

\* A header announcing more bytes than the buffer holds is refused.
C19_ShortOfItLen ==
    /\ decoder = "RadioTap"
    /\ Len(buf) >= 8
    /\ Len(buf) < ItLenOf(buf)
    /\ result.tag = "Err"


\* The ids Element::parse has an arm for.
SpecialisedIds == {0, 1, 2, 3, 5, 6, 7, 10, 16, 32, 35, 36, 37, 40, 41, 42}

\* C20: every successfully decoded information element consumes exactly
\* 2 + len bytes (id, len, then len bytes), specialised or not; an id outside
\* the specialised set decodes to Unknown{id, len} and does not fail as long
\* as len bytes are available.
C20_ElementConsumesLen ==
    decoder = "Element" /\ Len(buf) >= 2 =>
        /\ result.tag = "Ok" =>
               /\ Len(buf) >= 2 + buf[2]
               /\ result.rest = Drop(buf, 2 + buf[2])
        /\ buf[1] \notin SpecialisedIds /\ Len(buf) >= 2 + buf[2] =>
               /\ result.tag = "Ok"
               /\ result.val = Variant("Unknown", [id |-> buf[1], len |-> buf[2]])

\* A DS Parameter Set announcing two bytes: one is read and the second is
\* left to be decoded as the next element.
C20_FixedShapeIgnoresLen ==
    /\ decoder = "Element"
    /\ Len(buf) = 4
    /\ buf[1] = 3
    /\ buf[2] = 2
    /\ result.tag = "Ok"
    /\ result.val.variant = "DSParameterSet"
    /\ result.val.inner.common.len = 2
    /\ result.rest = Drop(buf, 3)

\* A DS Parameter Set announcing no bytes still reads one.
C20_FixedShapeReadsPastLen ==
    /\ decoder = "Element"
    /\ Len(buf) = 3
    /\ buf[1] = 3
    /\ buf[2] = 0
    /\ result.tag = "Ok"
    /\ result.rest = Drop(buf, 3)

\* An id outside the specialised set skips len bytes and keeps id and len.
C20_UnknownSkipsLen ==
    /\ decoder = "Element"
    /\ Len(buf) >= 2
    /\ buf[1] \notin SpecialisedIds
    /\ buf[2] > 0
    /\ result.tag = "Ok"
    /\ result.val = Variant("Unknown", [id |-> buf[1], len |-> buf[2]])
    /\ result.rest = Drop(buf, 2 + buf[2])

\* C21: a Supported Rates element of length n decodes to n SupportedRate
\* entries in wire order; each label is the rate in 500 kbps units carried in
\* the byte's 7-bit rate field (1, 2, 5.5 and 11 Mbps give 2, 4, 11 and 22)
\* and is_mandatory is the byte's remaining bit.
C21_SupportedRates ==
    decoder = "Element" /\ result.tag = "Ok" /\ result.val.variant = "SupportedRates" =>
        /\ Len(result.val.inner.supported_rates) = buf[2]
        /\ \A k \in 1..buf[2] :
               /\ result.val.inner.supported_rates[k].label = buf[2 + k] % 128
               /\ result.val.inner.supported_rates[k].is_mandatory = buf[2 + k] \div 128

\* The basic rates 1, 2, 5.5 and 11 Mbps as they are sent (0x82 0x84 0x8B
\* 0x96): four entries in wire order, with labels 65, 66, 69 and 75, the
\* seven high bits of each byte, and is_mandatory the low bit.
C21_LabelIsHighSevenBits ==
    /\ decoder = "Element"
    /\ buf = <<1, 4, 130, 132, 139, 150>>
    /\ result.tag = "Ok"
    /\ result.val.variant = "SupportedRates"
    /\ Len(result.val.inner.supported_rates) = 4
    /\ \A k \in 1..4 :
           /\ result.val.inner.supported_rates[k].label = buf[2 + k] \div 2
           /\ result.val.inner.supported_rates[k].is_mandatory = buf[2 + k] % 2
    /\ result.val.inner.supported_rates[1].label = 65
    /\ result.val.inner.supported_rates[4].label = 75

\* The little-endian u16 in the first two bytes of the buffer.
LeU16 == buf[1] + 256 * buf[2]

\* C22: the two bytes of sequence control are read as a little-endian u16 v,
\* with frag_num = v & 0xF (the 4 low bits) and seq_num = v >> 4 (the 12 high
\* bits), for every pair of bytes.
C22_SeqControlSplit ==
    decoder = "SeqControl" /\ Len(buf) >= 2 =>
        /\ result.tag = "Ok"
        /\ result.val.frag_num = LeU16 % 16
        /\ result.val.seq_num = LeU16 \div 16

\* On AB CD the fragment number is the high nibble of the first byte (0xA)
\* and the sequence number is the other twelve bits in wire order (0xBCD),
\* where the little-endian split gives 0xB and 0xCDA.
C22_FragIsHighNibble ==
    /\ decoder = "SeqControl"
    /\ buf = <<171, 205>>
    /\ result.tag = "Ok"
    /\ result.val.frag_num = 10
    /\ result.val.seq_num = 3021
    /\ LeU16 % 16 = 11
    /\ LeU16 \div 16 = 3290

\* The variants of `enum Subtype` in declaration order: sixteen Management
\* subtypes, the Control row, sixteen Data subtypes, the Extension pair.
SubtypeVariants ==
    <<"AssociationRequest", "AssociationResponse", "ReassociationRequest",
      "ReassociationResponse", "ProbeRequest", "ProbeResponse", "TimingAdvertisement",
      "Reserved1", "Beacon", "ATIM", "Disassociation", "Authentication",
      "Deauthentication", "Action", "NACK", "Reserved2",
      "Reserved3", "Trigger", "BeamformingReportPoll", "VHT_OR_HE_NDP_Announcement",
      "ControlFrameExtension", "ControlWrapper", "BAR", "BA", "PSPoll", "RequestToSend",
      "ClearToSend", "ACK", "CFEnd", "CFEnd_And_CFAck",
      "Data", "Data_And_CFAck", "Data_And_CFPoll", "Data_And_CFAck_And_CFPoll", "Null",
      "CFAck_NoData", "CFPoll_NoData", "CFAck_And_CFPoll_NoData", "QoSData",
      "QoSData_And_CFAck", "QoSData_And_CFPoll", "QoSData_And_CFAck_And_CFPoll",
      "QoSNull", "Reserved4", "QoS_CFPoll", "QoS_CFAck_And_CFPoll",
      "DMGBeacon", "Reserved5", "Unknown">>

\* The Type/Subtype table by the two type bits t and the four subtype bits s:
\* Management 0..F in order; Control 0/1 Reserved, 2 Trigger, 4..F in order
\* (the row names no subtype 3); Data 0..F in order; Extension 0 DMGBeacon,
\* else Reserved.
SubtypeTable(t, s) ==
    CASE t = 0 -> SubtypeVariants[s + 1]
      [] t = 1 /\ s \in {0, 1} -> SubtypeVariants[17]
      [] t = 1 /\ s = 2 -> SubtypeVariants[18]
      [] t = 1 /\ s >= 4 -> SubtypeVariants[15 + s]
      [] t = 2 -> SubtypeVariants[31 + s]
      [] t = 3 /\ s = 0 -> SubtypeVariants[47]
      [] t = 3 /\ s # 0 -> SubtypeVariants[48]

\* The pairs the table has a row for: all but (Control, 3).
Tabled(t, s) == ~(t = 1 /\ s = 3)

TypeVariants == <<"Management", "Control", "Data", "Extension">>

C23_ExtensionReserved ==
    /\ decoder = "FrameControl"
    /\ Len(buf) = 2
    /\ buf[1] % 4 = 3
    /\ (buf[1] \div 4) % 4 = 3
    /\ buf[1] \div 16 = 9
    /\ result.tag = "Ok"
    /\ result.val.version = 3
    /\ result.val.subtype = "Reserved5"

\* The pair the Control row does not name, (Control, 3), decodes to Unknown.
C23_ControlThreeUnknown ==
    /\ decoder = "FrameControl"
    /\ Len(buf) = 2
    /\ (buf[1] \div 4) % 4 = 1
    /\ buf[1] \div 16 = 3
    /\ result.tag = "Ok"
    /\ result.val.subtype = "Unknown"

\* The window of a Beacon / ProbeResponse body in which elements are decoded:
\* bytes 12 .. L - 4.
ElementWindow == SubSeq(buf, 13, Len(buf) - 4)

\* C24: a Beacon or ProbeResponse body of length L >= 16 decodes timestamp,
\* beacon_interval and the two capability bytes, then the information
\* elements of bytes 12 .. L - 4 in wire order, and returns the last 4 bytes
\* as the remainder; the element list never fails the body decode: a
\* malformed or truncated element inside the window ends the list.
C24_BeaconBody ==
    decoder \in {"Beacon", "ProbeResponse"} /\ Len(buf) >= 16 =>
        /\ result.tag = "Ok"
        /\ result.val.beacon_interval = buf[9] + 256 * buf[10]
        /\ result.rest = Drop(buf, Len(buf) - 4)
        /\ many0("Element", ElementWindow).tag = "Ok"
        /\ result.val.dynamic_fields = many0("Element", ElementWindow).val

\* A Beacon body whose window holds an SSID and then a Country element with
\* a country string that is not UTF-8: the decode does not return.
C24_MalformedElementAborts ==
    /\ decoder = "Beacon"
    /\ Len(buf) >= 29
    /\ SubSeq(buf, 13, 17) = SsidElement
    /\ SubSeq(buf, 18, 25) = <<7, 6, 255, 255, 32, 1, 11, 30>>
    /\ result.tag = "Panic"

\* A Beacon body with a stray byte behind its elements: the list ends at the
\* truncated element and the last four bytes are the remainder.
C24_TruncatedElementEndsList ==
    /\ decoder = "Beacon"
    /\ Len(buf) >= 16
    /\ result.tag = "Ok"
    /\ Len(ElementWindow) > 0
    /\ ElementWindow[Len(ElementWindow)] = 9
    /\ Len(result.val.dynamic_fields) = 2
    /\ result.rest = Drop(buf, Len(buf) - 4)

\* What the layer-4 dispatch of an IP decoder gives on `bytes` for the
\* protocol byte proto: the named decoder's result, or Unknown with the bytes
\* untouched.
L4Expected(proto, bytes) ==
    IF proto \in {1, 6, 17}
    THEN L4Run(proto, bytes)
    ELSE Ok(bytes, NoInner)

\* C25: the IPv4 decoder consumes exactly 20 header bytes before the layer-4
\* dispatch: for every ihl, also ihl > 5, the layer-4 decoder is handed the
\* bytes from offset 20 of the packet and no option bytes are skipped.
C25_TwentyHeaderBytes ==
    decoder = "IPv4" /\ Len(buf) >= 20 =>
        /\ result.tag = L4Expected(buf[10], Drop(buf, 20)).tag
        /\ result.tag = "Ok" =>
               /\ result.val.ihl = buf[1] % 16
               /\ result.val.payload.inner = L4Expected(buf[10], Drop(buf, 20)).val
               /\ result.rest = L4Expected(buf[10], Drop(buf, 20)).rest

\* A packet with ihl 6, four option bytes and a UDP header behind them: the
\* UDP decoder starts on the option bytes, at offset 20.
C25_OptionsReadAsLayer4 ==
    /\ decoder = "IPv4"
    /\ Len(buf) = 32
    /\ buf[1] % 16 = 6
    /\ buf[10] = 17
    /\ SubSeq(buf, 21, 24) = <<1, 1, 1, 0>>
    /\ result.tag = "Ok"
    /\ result.val.ihl = 6
    /\ result.val.payload.variant = "UDP"
    /\ result.val.payload.inner.src_port = 257
    /\ result.val.payload.inner.dst_port = 256

\* C26: unknown dispatch tags are not errors and consume nothing beyond the
\* fixed header: an Ethernet frame with an unrecognised ether_type decodes
\* with payload Unknown and remainder all bytes after offset 14, and an IPv4
\* packet with an unrecognised protocol decodes with payload Unknown and
\* remainder all bytes after offset 20.
C26_UnknownTagKeepsRemainder ==
    /\ decoder = "Ethernet" /\ Len(buf) >= 14 /\ EtherTypeAt12(buf) = "None" =>
           /\ result.tag = "Ok"
           /\ result.val.payload = Variant("Unknown", NoInner)
           /\ result.rest = Drop(buf, 14)
    /\ decoder = "IPv4" /\ Len(buf) >= 20 /\ buf[10] \notin {1, 6, 17} =>
           /\ result.tag = "Ok"
           /\ result.val.payload = Variant("Unknown", NoInner)
           /\ result.rest = Drop(buf, 20)

\* An IPv4 packet with protocol 47 (GRE) and bytes behind the header.
C26_UnknownProtocol ==
    /\ decoder = "IPv4"
    /\ Len(buf) > 20
    /\ buf[10] = 47
    /\ result.tag = "Ok"
    /\ result.val.payload.variant = "Unknown"
    /\ result.rest = Drop(buf, 20)

\* An Ethernet frame with ether_type 0x1234 and bytes behind the header.
C26_UnknownEtherType ==
    /\ decoder = "Ethernet"
    /\ Len(buf) > 14
    /\ EtherTypeAt12(buf) = "None"
    /\ result.tag = "Ok"
    /\ result.val.ether_type = "None"
    /\ result.val.payload.variant = "Unknown"
    /\ result.rest = Drop(buf, 14)

\* ------------------------------------------------------------------------
\* The packet table of bin/netparser (table.rs, capture.rs): the rows built
\* by the capture loop and the selection moved by the key handler.  Every
\* access is made under the table mutex, so each call is one step.
\* ------------------------------------------------------------------------

\* Packets the capture loop may be handed
MaxPackets == 3

\* Largest magnitude the selected index is followed to
MaxIndex == 12

\* usize values: a natural is itself, a negative number -k is 2^64 - k (the
\* result of a wrapped subtraction), which exceeds every natural.
usize_ge(a, b) == IF (a < 0) = (b < 0) THEN a >= b ELSE a < 0

\* `a - b` on usize: an underflow panics with overflow checks and wraps
\* without them.
usize_sub(a, b) ==
    IF usize_ge(a, b) THEN Ok(<<>>, a - b)
    ELSE IF overflow_checks THEN Panic("attempt to subtract with overflow")
    ELSE Ok(<<>>, a - b)

\* `a + b` on usize: passing 2^64 panics with overflow checks and wraps
\* without them.
usize_add(a, b) ==
    IF ~(a < 0 /\ a + b >= 0) THEN Ok(<<>>, a + b)
    ELSE IF overflow_checks THEN Panic("attempt to add with overflow")
    ELSE Ok(<<>>, a + b)

\* StatefulTable::new and `let mut index = 0` of capture_packets
StatefulTable_new ==
    [status |-> "ok", selected |-> None, headers |-> <<>>, widths |-> <<>>,
     records |-> <<>>, frames |-> <<>>, index |-> 0]

\* Vec::contains
contains(s, x) == \E k \in 1..Len(s) : s[k] = x

\* StatefulTable::push: records.get_mut(index) is the row at position
\* index + 1 of the sequence.
StatefulTable_push(t, item, header, width, index) ==
    LET pushed == IF index < Len(t.records)
                  THEN [t EXCEPT !.records[index + 1] = Append(@, item)]
                  ELSE [t EXCEPT !.records = Append(@, <<item>>)]
    IN  IF ~contains(pushed.headers, header)
        THEN [pushed EXCEPT !.headers = Append(@, header), !.widths = Append(@, width)]
        ELSE pushed

\* One table cell: the text and the column it was captured for
Field(text, header, len) == [text |-> text, header |-> header, len |-> len]

\* capture_tcp_packet and capture_udp_packet
capture_ports(packet) ==
    <<Field(packet.src_port, "SRC_PORT", 5), Field(packet.dst_port, "DST_PORT", 5)>>

\* capture_ipv4_packet and capture_ipv6_packet: the fields in call order.
\* ipv4's protocol is always Some; ipv6's is None for an unknown byte.
capture_ip_packet(packet) ==
    (IF packet.protocol # "None" THEN <<Field(packet.protocol, "L4", 5)>> ELSE <<>>)
    \o <<Field(packet.src, "IP_SRC", 24), Field(packet.dst, "IP_DST", 24)>>
    \o (IF packet.payload.variant \in {"TCP", "UDP"}
        THEN capture_ports(packet.payload.inner) ELSE <<>>)

\* capture_payload
capture_payload(payload) ==
    IF payload.variant \in {"IPv4", "IPv6"} THEN capture_ip_packet(payload.inner) ELSE <<>>

\* The fields capture_frame adds after the packet number, for Frame::Ethernet
capture_fields(frame) ==
    (IF frame.ether_type # "None" THEN <<Field(frame.ether_type, "L3", 5)>> ELSE <<>>)
    \o capture_payload(frame.payload)

\* Capture::add called for each field in turn
RECURSIVE add_all(_, _, _)
add_all(t, fields, index) ==
    IF fields = <<>> THEN t
    ELSE add_all(StatefulTable_push(t, Head(fields).text, Head(fields).header,
                                    Head(fields).len, index),
                 Tail(fields), index)

\* capture_frame: the packet number under "N", then the frame's fields
capture_frame(t, frame, index) ==
    add_all(StatefulTable_push(t, index, "N", 5, index), capture_fields(frame.inner), index)

\* StatefulTable::next
StatefulTable_next(t, long) ==
    IF t.selected = None THEN Ok(<<>>, 0)
    ELSE Bind(usize_sub(Len(t.records), 1), LAMBDA last :
         IF usize_ge(t.selected[2], last.val) THEN Ok(<<>>, 0)
         ELSE usize_add(t.selected[2], IF long THEN 10 ELSE 1))

\* StatefulTable::previous
StatefulTable_previous(t, long) ==
    IF t.selected = None THEN Ok(<<>>, 0)
    ELSE IF t.selected[2] = 0 THEN usize_sub(Len(t.records), 1)
    ELSE usize_sub(t.selected[2], IF long THEN 10 ELSE 1)

\* Ethernet packets handed to the loop: an unknown EtherType, ARP, UDP over
\* IPv4, and an IPv4 packet whose TCP header is missing (it fails to decode)
TablePackets ==
    {EthernetHeader(18, 52) \o Fill(35, 3),
     EthernetHeader(8, 6) \o ArpPacket(1, 1),
     EthernetHeader(8, 0) \o Ipv4Header(17) \o Fill(11, 8),
     EthernetHeader(8, 0) \o Ipv4Header(6)}

TableInit ==
    /\ buf = <<>>
    /\ overflow_checks \in BOOLEAN
    /\ decoder = "none"
    /\ result = NoResult
    /\ link_type = Some(1)
    /\ ux = NoUx
    /\ table = StatefulTable_new
    /\ ui = NoUi

\* Within the selection range followed
InRange(i) == i >= -MaxIndex /\ i <= MaxIndex

\* The select(Some(i)) that ends next and previous.  A panic unwinds the
\* key thread while it holds the table mutex, which poisons the mutex.
select(r) ==
    /\ table.status = "ok"
    /\ r.tag = "Ok" => InRange(r.val)
    /\ table' = IF r.tag = "Ok" THEN [table EXCEPT !.selected = Some(r.val)]
                ELSE [table EXCEPT !.status = "poisoned"]
    /\ UNCHANGED <<buf, overflow_checks, decoder, result, link_type, ux, ui>>

\* receive_key: Down and Ctrl-n are next(false), Ctrl-v is next(true)
KeyNext == \E long \in BOOLEAN : select(StatefulTable_next(table, long))

\* receive_key: Up and Ctrl-p are previous(false), Alt-v is previous(true)
KeyPrevious == \E long \in BOOLEAN : select(StatefulTable_previous(table, long))

\* What one turn of the `while let Ok(packet) = cap.next()` loop leaves, from
\* table.lock() on: a decoded frame is captured and pushed, index advances
\* either way.  A poisoned mutex fails the `if let Ok(mut table)`.
capture_turn(t, r) ==
    IF t.status = "ok" /\ r.tag = "Ok"
    THEN [capture_frame(t, r.val, t.index) EXCEPT !.frames = Append(@, r.val), !.index = @ + 1]
    ELSE IF t.status = "ok" /\ r.tag = "Panic"
    THEN [t EXCEPT !.status = "poisoned"]
    ELSE [t EXCEPT !.index = @ + 1]

TablePacket(data) ==
    /\ table.status # "none"
    /\ table.index < MaxPackets
    /\ table' = capture_turn(table, capture_packets(link_type[2], data))
    /\ UNCHANGED <<buf, overflow_checks, decoder, result, link_type, ux, ui>>

CapturePacket == \E data \in TablePackets : TablePacket(data)

TableNext ==
    \/ CapturePacket
    \/ KeyNext
    \/ KeyPrevious

TableSpec == TableInit /\ [][TableNext]_vars

\* C27: after any sequence of push, next(long) and previous(long) calls the
\* selected row is None or an index below records.len(), and no call
\* underflows or overflows an index computation: none panics (the mutex is
\* never poisoned) and none wraps (no selected index of 2^64 - k).
C27_SelectionInRange ==
    table.status # "none" =>
        /\ table.status = "ok"
        /\ table.selected = None
           \/ (table.selected[2] >= 0 /\ table.selected[2] < Len(table.records))

\* next on the empty table selects row 0 of no rows.
C27_NextOnEmptyTable ==
    /\ table.status = "ok" /\ table.records = <<>> /\ table.selected = Some(0)

\* next(true) from a row that is not the last selects a row past the end.
C27_LongNextPastEnd ==
    /\ table.status = "ok" /\ Len(table.records) >= 2 /\ table.selected = Some(10)

\* A subtraction underflowed with overflow checks: the key thread panicked.
C27_UnderflowPanics ==
    /\ table.status = "poisoned" /\ overflow_checks /\ table.selected # None

\* previous(true) from a row below 10 wrapped without overflow checks.
C27_LongPreviousWraps ==
    /\ table.status = "ok" /\ ~overflow_checks /\ Len(table.records) >= 2
    /\ table.selected # None /\ table.selected[2] = 1 - 10

\* The texts of a sequence of fields
RECURSIVE Texts(_)
Texts(fields) == IF fields = <<>> THEN <<>> ELSE <<Head(fields).text>> \o Texts(Tail(fields))

\* Row k is the row of frame k: a packet number, then that frame's fields.
RowOfFrame(k) ==
    /\ Len(table.records[k]) >= 1
    /\ Tail(table.records[k]) = Texts(capture_fields(table.frames[k].inner))

\* C30: after any sequence of captured packets, some of which fail to
\* decode, the table holds one record row per decoded frame:
\* records.len() == frames.len() and row i contains the fields of frames[i].
C30_RowPerFrame ==
    table.status # "none" =>
        /\ Len(table.records) = Len(table.frames)
        /\ \A k \in 1..Len(table.frames) : RowOfFrame(k)

\* After a failed decode the N cell of the next frame opens a row and each
\* further field opens a row of its own.
C30_FieldsBecomeRows ==
    /\ table.status = "ok"
    /\ table.index > Len(table.frames)
    /\ Len(table.records) > Len(table.frames)

\* The selection is on a row of the table for which draw finds no frame,
\* or a frame whose fields are not that row's.
C30_SelectedRowNotItsFrame ==
    /\ table.status = "ok"
    /\ table.selected # None
    /\ table.selected[2] >= 0 /\ table.selected[2] < Len(table.records)
    /\ \/ table.selected[2] >= Len(table.frames)
       \/ ~RowOfFrame(table.selected[2] + 1)

\* As long as every packet decoded, rows and frames agree.
C30_RowPerFrameWithoutFailures ==
    table.status # "none" /\ table.index = Len(table.frames) =>
        /\ Len(table.records) = Len(table.frames)
        /\ \A k \in 1..Len(table.frames) : RowOfFrame(k)

\* ------------------------------------------------------------------------
\* The threads of Capture::start (capture.rs, draw.rs): capture_packets,
\* receive_key, tick and draw around one bounded channel of events and the
\* table mutex.  The table's contents are left out; a lock that is taken
\* and dropped with no channel operation in between is one step.  stdin is
\* a terminal that stays open, and no thread panics.
\* ------------------------------------------------------------------------

\* bounded::<Event>(5)
ChannelCapacity == 5

\* Packets and keys the environment delivers; the ticker never stops
MaxUiPackets == 2

MaxKeys == 2

\* Keys told apart by receive_key: 'q', ' ', 'h', and Down for every key
\* that sends nothing but Event::Key
Keys == {"q", " ", "h", "Down"}

\* The event the first send of receive_key carries
KeyEvent(k) ==
    CASE k = "q" -> "Disconnected"
      [] k = " " -> "Paused"
      [] k = "h" -> "Selected"

UiStart ==
    [status |-> "run", chan |-> <<>>, lock |-> "free",
     pc |-> [capture |-> "next", key |-> "try_recv", tick |-> "wait", draw |-> "recv"],
     key |-> "none", packets |-> 0, keys |-> 0,
     sent |-> FALSE, taker |-> "none"]

UiInit ==
    /\ buf = <<>>
    /\ overflow_checks = FALSE
    /\ decoder = "none"
    /\ result = NoResult
    /\ link_type = Some(1)
    /\ ux = NoUx
    /\ table = NoTable
    /\ ui = UiStart

\* One step of thread t while the process runs
UiStep(t, at, u) ==
    /\ ui.status = "run"
    /\ ui.pc[t] = at
    /\ ui' = u
    /\ UNCHANGED <<buf, overflow_checks, decoder, result, link_type, ux, table>>

\* `if let Ok(Event::Disconnected) = receiver.try_recv() { break; }`: the
\* event at the head of the channel, whatever it is, is taken off.
try_recv(u, t, go_on) ==
    IF u.chan = <<>> THEN [u EXCEPT !.pc[t] = go_on]
    ELSE IF Head(u.chan) = "Disconnected"
    THEN [u EXCEPT !.chan = Tail(@), !.pc[t] = "done", !.taker = t]
    ELSE [u EXCEPT !.chan = Tail(@), !.pc[t] = go_on]

\* sender.send(e) once the channel has room
send(u, e) == [u EXCEPT !.chan = Append(@, e)]

\* capture_packets: cap.next() returns a packet
CaptureNext ==
    /\ ui.packets < MaxUiPackets
    /\ UiStep("capture", "next", [ui EXCEPT !.packets = @ + 1, !.pc.capture = "try_recv"])

\* capture_packets: the try_recv at the top of the loop body
CaptureTryRecv == UiStep("capture", "try_recv", try_recv(ui, "capture", "lock"))

\* capture_packets: table.lock(), the decode and the pushes, the guard
\* dropped, index = index + 1
CaptureLocked ==
    /\ ui.lock = "free"
    /\ UiStep("capture", "lock", [ui EXCEPT !.pc.capture = "next"])

\* receive_key: the try_recv at the top of the outer loop
KeyTryRecv == UiStep("key", "try_recv", try_recv(ui, "key", "keys"))

\* receive_key: stdin.keys() yields a key
KeyRead ==
    /\ ui.keys < MaxKeys
    /\ \E k \in Keys :
           UiStep("key", "keys", [ui EXCEPT !.keys = @ + 1, !.key = k, !.pc.key = "lock"])

\* receive_key: table.lock(); for a movement key the match arm (next or
\* previous) is run here
KeyLock ==
    /\ ui.lock = "free"
    /\ UiStep("key", "lock",
              [ui EXCEPT !.lock = "key",
                         !.pc.key = IF ui.key \in {"q", " ", "h"} THEN "send" ELSE "send_key"])

\* receive_key: the send of the match arm, made with the table locked
KeySend ==
    /\ Len(ui.chan) < ChannelCapacity
    /\ UiStep("key", "send",
              [send(ui, KeyEvent(ui.key)) EXCEPT !.pc.key = "send_key",
                                                 !.sent = @ \/ ui.key = "q"])

\* receive_key: sender.send(Event::Key), then the guard is dropped
KeySendKey ==
    /\ Len(ui.chan) < ChannelCapacity
    /\ UiStep("key", "send_key",
              [send(ui, "Key") EXCEPT !.pc.key = "keys", !.lock = "free", !.key = "none"])

\* tick: ticker.recv() returns
TickFire == UiStep("tick", "wait", [ui EXCEPT !.pc.tick = "send"])

\* tick: sender.send(Event::Tick)
TickSend ==
    /\ Len(ui.chan) < ChannelCapacity
    /\ UiStep("tick", "send", [send(ui, "Tick") EXCEPT !.pc.tick = "wait"])

\* draw: the `match receiver.recv()` on the event e taken off the channel
draw_match(u, e) ==
    CASE e = "Disconnected" -> [u EXCEPT !.status = "exited", !.taker = "draw"]
      [] e \in {"Selected", "Key", "Tick"} -> [u EXCEPT !.pc.draw = "lock"]
      [] OTHER -> u

\* draw: receiver.recv() returns
DrawRecv ==
    /\ ui.chan # <<>>
    /\ UiStep("draw", "recv", draw_match([ui EXCEPT !.chan = Tail(@)], Head(ui.chan)))

\* draw: table.lock() inside terminal.draw, the table drawn, the guard
\* dropped
DrawLocked ==
    /\ ui.lock = "free"
    /\ UiStep("draw", "lock", [ui EXCEPT !.pc.draw = "recv"])

CaptureThread == CaptureNext \/ CaptureTryRecv \/ CaptureLocked

KeyThread == KeyTryRecv \/ KeyRead \/ KeyLock \/ KeySend \/ KeySendKey

TickThread == TickFire \/ TickSend

DrawThread == DrawRecv \/ DrawLocked

UiNext ==
    \/ CaptureNext
    \/ CaptureTryRecv
    \/ CaptureLocked
    \/ KeyTryRecv
    \/ KeyRead
    \/ KeyLock
    \/ KeySend
    \/ KeySendKey
    \/ TickFire
    \/ TickSend
    \/ DrawRecv
    \/ DrawLocked

UiSpec == UiInit /\ [][UiNext]_vars

\* Every thread of the scope is scheduled: a thread that can take a step
\* and stays able to does take it.
UiFairSpec ==
    /\ UiInit /\ [][UiNext]_vars
    /\ WF_vars(CaptureThread) /\ WF_vars(KeyThread)
    /\ WF_vars(TickThread) /\ WF_vars(DrawThread)

\* The key thread waits in a send on the full channel with the table locked.
KeyBlockedSending ==
    /\ ui.pc.key \in {"send", "send_key"}
    /\ ui.lock = "key"
    /\ Len(ui.chan) = ChannelCapacity

\* The draw thread has taken an event and waits for the table mutex.
DrawBlockedLocking == ui.pc.draw = "lock" /\ ui.lock # "free"

\* Neither of the other two threads can step: tick waits in its send, the
\* capture thread waits for the mutex or has left its loop.
OthersBlocked ==
    /\ ui.pc.tick = "send"
    /\ ui.pc.capture \in {"lock", "done"}

\* C29: the capture UI threads never deadlock: no reachable state has the
\* key thread blocked sending on the full channel while it holds the table
\* mutex, the draw thread blocked on that mutex with an event taken, and no
\* thread able to make progress.
C29_NoDeadlock ==
    ui.status = "run" => ~(KeyBlockedSending /\ DrawBlockedLocking /\ OthersBlocked)

\* The state the claim rules out, with no step of any thread enabled.
C29_AllThreadsBlocked ==
    /\ ui.status = "run"
    /\ KeyBlockedSending /\ DrawBlockedLocking /\ OthersBlocked
    /\ ~ENABLED UiNext

\* The same with the capture thread blocked on the mutex after its try_recv
\* made room in the channel and tick filled it again.
C29_CaptureBlockedToo ==
    /\ ui.status = "run"
    /\ KeyBlockedSending /\ DrawBlockedLocking
    /\ ui.pc.tick = "send" /\ ui.pc.capture = "lock"

\* C28: once the key thread has read 'q' and sent Event::Disconnected, the
\* draw loop eventually receives that event and the process exits, under
\* every interleaving of the four threads.
C28_DisconnectedReachesDraw == ui.sent ~> (ui.status = "exited")

\* The Disconnected event sent for 'q' was taken by the try_recv of the
\* capture thread; the channel is empty and the process still runs.
C28_CaptureTookDisconnected ==
    /\ ui.status = "run" /\ ui.sent
    /\ ui.taker = "capture"
    /\ ui.chan = <<>>

\* No receiver but draw and the capture thread takes it in this model: the
\* key thread is past its only try_recv before it reads a key.
C28_KeyThreadNeverTakesIt == ui.taker # "key"

====
